---- MODULE Spec2Model ----
(***************************************************************************)
(* A model of the Admiral TypeScript client SDK: the client factory with   *)
(* its memoized service accessors (client/client.ts), the transport and    *)
(* its interceptors (client/lib/transport.ts) and the token utilities      *)
(* (client/lib/auth.ts).                                                   *)
(*                                                                         *)
(* JavaScript strings are modelled as sequences of one-character strings,  *)
(* so that split, includes, length, the Bearer-prefix regular expression   *)
(* and the base64url decoding act on characters as the code does.          *)
(***************************************************************************)
EXTENDS Integers, Sequences, FiniteSets, TLC

VARIABLES
    config,        \* the ClientConfig object the caller passed to createClient
    client,        \* what createClient returned: created flag and its transport
    handles,       \* the _cluster, _runner, ... closure variables of createClient
    constructed,   \* per service, how often createConnectClient has been called
    firstReturned, \* per service, the handle its first accessor read returned
    lastRead,      \* the last accessor read: service and the handle returned
    now,           \* the clock, Date.now(), in milliseconds
    validation,    \* outcome of the last client.validateToken()
    tokenInfo,     \* outcome of the last client.getTokenInfo()
    probe,         \* outcome of the last direct call of a token utility
    req            \* the request in the timeout interceptor, and its signals

vars == <<config, client, handles, constructed, firstReturned, lastRead, now,
          validation, tokenInfo, probe, req>>

-----------------------------------------------------------------------------
(* Bounds of the model *)

\* exp and nbf claims range over -1 .. MaxSec (seconds since the epoch)
MaxSec == 2
\* configured request timeouts range over 0 .. MaxTimeout (milliseconds)
MaxTimeout == 2
\* the millisecond clock of the request model runs over 0 .. MaxElapsed
MaxElapsed == 4
\* requests started on one client
MaxRequests == 2

-----------------------------------------------------------------------------
(* Characters and strings *)

Base64Alphabet ==
    <<"A","B","C","D","E","F","G","H","I","J","K","L","M","N","O","P","Q","R",
      "S","T","U","V","W","X","Y","Z","a","b","c","d","e","f","g","h","i","j",
      "k","l","m","n","o","p","q","r","s","t","u","v","w","x","y","z","0","1",
      "2","3","4","5","6","7","8","9","+","/">>

\* The printable ASCII characters; Ascii[i] has character code i + 31 (the
\* grave accent, code 96, is written "<grave>").
Ascii ==
    <<" ","!","\"","#","$","%","&","'","(",")","*","+",",","-",".","/","0","1",
      "2","3","4","5","6","7","8","9",":",";","<","=",">","?","@","A","B","C",
      "D","E","F","G","H","I","J","K","L","M","N","O","P","Q","R","S","T","U",
      "V","W","X","Y","Z","[","\\","]","^","_","<grave>","a","b","c","d","e","f","g",
      "h","i","j","k","l","m","n","o","p","q","r","s","t","u","v","w","x","y",
      "z","{","|","}","~">>

\* What a byte outside the printable ASCII range decodes to.
Unprintable == "<?>"

Digits == <<"0","1","2","3","4","5","6","7","8","9">>

\* The position of each character of a table of distinct characters.
TableIndex(table) ==
    [c \in {table[i] : i \in 1..Len(table)} |-> CHOOSE i \in 1..Len(table) : table[i] = c]

AsciiIndex == TableIndex(Ascii)
Base64Index == TableIndex(Base64Alphabet)
DigitIndex == TableIndex(Digits)

\* the character code of a printable ASCII character
CharCode(c) == AsciiIndex[c] + 31

FromCharCode(b) == IF b >= 32 /\ b <= 126 THEN Ascii[b - 31] ELSE Unprintable

ToLower(c) ==
    IF c \in DOMAIN AsciiIndex /\ CharCode(c) >= 65 /\ CharCode(c) <= 90
    THEN FromCharCode(CharCode(c) + 32)
    ELSE c

IsDigit(c) == c \in DOMAIN DigitIndex

RECURSIVE Concat(_)
Concat(parts) ==
    IF parts = <<>> THEN <<>> ELSE Head(parts) \o Concat(Tail(parts))

RECURSIVE Join(_, _)
Join(parts, sep) ==
    IF parts = <<>> THEN <<>>
    ELSE IF Len(parts) = 1 THEN parts[1]
    ELSE parts[1] \o sep \o Join(Tail(parts), sep)

RECURSIVE Repeat(_, _)
Repeat(c, n) == IF n <= 0 THEN <<>> ELSE <<c>> \o Repeat(c, n - 1)

\* String.prototype.includes for a one-character needle
includes(s, c) == \E i \in 1..Len(s) : s[i] = c

\* String.prototype.split for a one-character separator: the pieces between
\* the occurrences of the separator, so "" splits to [""]
split(s, c) ==
    LET at     == {i \in 1..Len(s) : s[i] = c}
        \* the position of the k-th separator; 0 and Len(s) + 1 bound the string
        cut(k) == IF k = 0 THEN 0
                  ELSE IF k > Cardinality(at) THEN Len(s) + 1
                  ELSE CHOOSE p \in at : Cardinality({q \in at : q < p}) = k - 1
    IN  [k \in 1..(Cardinality(at) + 1) |-> SubSeq(s, cut(k - 1) + 1, cut(k) - 1)]

\* String.prototype.replace(/x/g, y) for one-character x and y
replaceAll(s, x, y) == [i \in 1..Len(s) |-> IF s[i] = x THEN y ELSE s[i]]

\* String(n) for an integer n
RECURSIVE NatToString(_)
NatToString(n) ==
    IF n < 10 THEN <<Digits[n + 1]>>
    ELSE NatToString(n \div 10) \o <<Digits[(n % 10) + 1]>>

IntToString(n) == IF n < 0 THEN <<"-">> \o NatToString(0 - n) ELSE NatToString(n)

RECURSIVE StringToNat(_)
StringToNat(s) ==
    IF s = <<>> THEN 0
    ELSE 10 * StringToNat(SubSeq(s, 1, Len(s) - 1)) + (DigitIndex[s[Len(s)]] - 1)

\* n as a decimal string of at least w digits
PadLeft(n, w) ==
    LET d == NatToString(n) IN Repeat("0", w - Len(d)) \o d

-----------------------------------------------------------------------------
(* Base64: Buffer.from(s, "base64").toString("utf-8") of Node, and btoa *)

\* The 6-bit value of a base64 character, -1 for any other character. Node's
\* decoder reads the url-safe characters "-" and "_" as "+" and "/".
Unbase64(c) ==
    IF c = "-" THEN 62
    ELSE IF c = "_" THEN 63
    ELSE IF c \in DOMAIN Base64Index THEN Base64Index[c] - 1
    ELSE -1

\* The characters of s before its first "=" (Node stops decoding there).
UpToPadding(s) ==
    LET pads == {i \in 1..Len(s) : s[i] = "="} IN
    IF pads = {} THEN s
    ELSE SubSeq(s, 1, (CHOOSE p \in pads : \A q \in pads : p <= q) - 1)

\* The 6-bit values of the legal characters of s (Node skips the others).
Sextets(s) ==
    LET legal == SelectSeq(UpToPadding(s), LAMBDA c : Unbase64(c) >= 0)
    IN  [i \in 1..Len(legal) |-> Unbase64(legal[i])]

\* Four 6-bit values make three bytes; a last group of three makes two
\* bytes, of two makes one, and a single left-over value makes none.
SextetsToBytes(x) ==
    LET at(i) == IF i <= Len(x) THEN x[i] ELSE 0
        byte(k) ==
            LET g == 4 * ((k - 1) \div 3)
                j == (k - 1) % 3
            IN  IF j = 0 THEN at(g + 1) * 4 + at(g + 2) \div 16
                ELSE IF j = 1 THEN (at(g + 2) % 16) * 16 + at(g + 3) \div 4
                ELSE (at(g + 3) % 4) * 64 + at(g + 4)
    IN  [k \in 1..((Len(x) * 6) \div 8) |-> byte(k)]

BufferFromBase64ToString(s) ==
    LET bytes == SextetsToBytes(Sextets(s))
    IN  [i \in 1..Len(bytes) |-> FromCharCode(bytes[i])]

RECURSIVE BytesToBase64(_)
BytesToBase64(b) ==
    IF Len(b) >= 3
    THEN LET n == b[1] * 65536 + b[2] * 256 + b[3]
         IN  <<Base64Alphabet[(n \div 262144) + 1],
               Base64Alphabet[((n \div 4096) % 64) + 1],
               Base64Alphabet[((n \div 64) % 64) + 1],
               Base64Alphabet[(n % 64) + 1]>> \o BytesToBase64(SubSeq(b, 4, Len(b)))
    ELSE IF Len(b) = 2
    THEN LET n == (b[1] * 256 + b[2]) * 4
         IN  <<Base64Alphabet[(n \div 4096) + 1],
               Base64Alphabet[((n \div 64) % 64) + 1],
               Base64Alphabet[(n % 64) + 1], "=">>
    ELSE IF Len(b) = 1
    THEN LET n == b[1] * 16
         IN  <<Base64Alphabet[(n \div 64) + 1], Base64Alphabet[(n % 64) + 1], "=", "=">>
    ELSE <<>>

\* btoa of a string of printable ASCII characters
btoa(s) == BytesToBase64([i \in 1..Len(s) |-> CharCode(s[i])])

base64UrlDecode(input) ==
    LET base64  == replaceAll(replaceAll(input, "-", "+"), "_", "/")
        padding == Len(base64) % 4
        padded  == IF padding # 0 THEN base64 \o Repeat("=", 4 - padding) ELSE base64
    IN  BufferFromBase64ToString(padded)

-----------------------------------------------------------------------------
(* JSON values, JSON.stringify and JSON.parse *)

JUndefined == [kind |-> "undefined"]
JNull == [kind |-> "null"]
JNum(n) == [kind |-> "number", num |-> n]
JStr(s) == [kind |-> "string", str |-> s]
\* an array of scalars
JArr(items) == [kind |-> "array", items |-> items]
\* an object: its members in insertion order, each <<key, scalar value>>
JObj(members) == [kind |-> "object", members |-> members]

Quoted(s) == <<"\"">> \o s \o <<"\"">>

StringifyScalar(v) ==
    IF v.kind = "null" THEN <<"n","u","l","l">>
    ELSE IF v.kind = "number" THEN IntToString(v.num)
    ELSE Quoted(v.str)

stringify(v) ==
    IF v.kind = "array"
    THEN <<"[">> \o Join([i \in 1..Len(v.items) |-> StringifyScalar(v.items[i])], <<",">>)
             \o <<"]">>
    ELSE IF v.kind = "object"
    THEN <<"{">> \o Join([i \in 1..Len(v.members) |->
                            Quoted(v.members[i][1]) \o <<":">>
                                \o StringifyScalar(v.members[i][2])], <<",">>)
             \o <<"}">>
    ELSE StringifyScalar(v)

ParseError == [ok |-> FALSE, value |-> JUndefined]
Parsed(v) == [ok |-> TRUE, value |-> v]

IsNatLiteral(t) ==
    /\ Len(t) >= 1
    /\ \A i \in 1..Len(t) : IsDigit(t[i])
    /\ (Len(t) > 1 => t[1] # "0")

IsStringLiteral(t) ==
    /\ Len(t) >= 2
    /\ t[1] = "\"" /\ t[Len(t)] = "\""
    /\ \A i \in 2..(Len(t) - 1) :
            t[i] # "\"" /\ t[i] # "\\" /\ t[i] # Unprintable

\* JSON.parse of a scalar: null, an integer, or a string without escapes
ParseScalar(t) ==
    IF t = <<"n","u","l","l">> THEN Parsed(JNull)
    ELSE IF IsNatLiteral(t) THEN Parsed(JNum(StringToNat(t)))
    ELSE IF Len(t) >= 2 /\ t[1] = "-" /\ IsNatLiteral(Tail(t))
    THEN Parsed(JNum(0 - StringToNat(Tail(t))))
    ELSE IF IsStringLiteral(t) THEN Parsed(JStr(SubSeq(t, 2, Len(t) - 1)))
    ELSE ParseError

ParseMember(t) ==
    LET kv == split(t, ":") IN
    IF Len(kv) = 2 /\ IsStringLiteral(kv[1]) /\ ParseScalar(kv[2]).ok
    THEN Parsed(<<SubSeq(kv[1], 2, Len(kv[1]) - 1), ParseScalar(kv[2]).value>>)
    ELSE ParseError

\* JSON.parse on the JSON texts of the model: a scalar, an array of scalars,
\* or an object whose members are scalars; texts are written without white
\* space and strings hold neither "," nor ":" (as JSON.stringify writes the
\* values above). Any other text is a SyntaxError.
JSONparse(t) ==
    IF Len(t) >= 2 /\ t[1] = "[" /\ t[Len(t)] = "]"
    THEN LET inner == SubSeq(t, 2, Len(t) - 1)
             parts == split(inner, ",")
         IN  IF inner = <<>> THEN Parsed(JArr(<<>>))
             ELSE IF \A i \in 1..Len(parts) : ParseScalar(parts[i]).ok
             THEN Parsed(JArr([i \in 1..Len(parts) |-> ParseScalar(parts[i]).value]))
             ELSE ParseError
    ELSE IF Len(t) >= 2 /\ t[1] = "{" /\ t[Len(t)] = "}"
    THEN LET inner == SubSeq(t, 2, Len(t) - 1)
             parts == split(inner, ",")
         IN  IF inner = <<>> THEN Parsed(JObj(<<>>))
             ELSE IF \A i \in 1..Len(parts) : ParseMember(parts[i]).ok
             THEN Parsed(JObj([i \in 1..Len(parts) |-> ParseMember(parts[i]).value]))
             ELSE ParseError
    ELSE ParseScalar(t)

\* The message of the SyntaxError JSON.parse throws
SyntaxErrorMessage == <<"S","y","n","t","a","x","E","r","r","o","r">>

-----------------------------------------------------------------------------
(* Date.prototype.toISOString *)

\* new Date(ms).toISOString() for a time within one day of the epoch, which
\* is where the model's exp and nbf claims lie.
toISOString(ms) ==
    LET date == IF ms < 0 THEN <<"1","9","6","9","-","1","2","-","3","1">>
                ELSE <<"1","9","7","0","-","0","1","-","0","1">>
        t    == ms % 86400000
    IN  date \o <<"T">> \o PadLeft(t \div 3600000, 2) \o <<":">>
            \o PadLeft((t \div 60000) % 60, 2) \o <<":">>
            \o PadLeft((t \div 1000) % 60, 2) \o <<".">>
            \o PadLeft(t % 1000, 3) \o <<"Z">>

-----------------------------------------------------------------------------
(* JavaScript evaluation of the expressions auth.ts applies to claims *)

EXP == <<"e","x","p">>
NBF == <<"n","b","f">>
SUB == <<"s","u","b">>

\* !v
Falsy(v) ==
    \/ v.kind \in {"undefined", "null"}
    \/ v.kind = "number" /\ v.num = 0
    \/ v.kind = "string" /\ v.str = <<>>

\* Reading a property of null or undefined throws a TypeError.
PropertyReadThrows(claims) == claims.kind \in {"null", "undefined"}

\* claims.key for a value that is not null: the member of an object, and
\* undefined on a number, a string or an array (for the keys exp and nbf).
Property(claims, key) ==
    IF claims.kind = "object" /\ \E i \in 1..Len(claims.members) : claims.members[i][1] = key
    THEN LET last == CHOOSE i \in 1..Len(claims.members) :
                        /\ claims.members[i][1] = key
                        /\ \A j \in (i + 1)..Len(claims.members) : claims.members[j][1] # key
         IN  claims.members[last][2]
    ELSE JUndefined

NaN == [nan |-> TRUE, n |-> 0]
Number(n) == [nan |-> FALSE, n |-> n]

\* v * 1000 for a truthy scalar v: a number, or a string, which converts to
\* a number when it is an integer literal and to NaN otherwise.
Times1000(v) ==
    IF v.kind = "number" THEN Number(v.num * 1000)
    ELSE IF v.kind = "string" /\ IsNatLiteral(v.str) THEN Number(StringToNat(v.str) * 1000)
    ELSE NaN

\* the outcome of a call: a returned value or a thrown error
Return(v) == [threw |-> FALSE, value |-> v]
Throw(e) == [threw |-> TRUE, error |-> e]

Message(text, arg) == [text |-> text, arg |-> arg]
TypeError == Message("TypeError: Cannot read properties of null", <<>>)

-----------------------------------------------------------------------------
(* client/lib/auth.ts *)

\* parseJWTToken requiring at least three segments instead of exactly three
parseJWTTokenAtLeastThree(token) ==
    LET parts == split(token, ".") IN
    IF Len(parts) < 3
    THEN Throw(Message("Invalid token format: expected 3 parts, got ", IntToString(Len(parts))))
    ELSE IF parts[2] = <<>>
    THEN Throw(Message("Invalid token format: missing payload", <<>>))
    ELSE LET parsed == JSONparse(base64UrlDecode(parts[2]))
         IN  IF parsed.ok THEN Return(parsed.value)
             ELSE Throw(Message("Failed to parse token payload: ", SyntaxErrorMessage))

parseJWTToken(token) ==
    LET parts == split(token, ".") IN
    IF Len(parts) # 3
    THEN Throw(Message("Invalid token format: expected 3 parts, got ", IntToString(Len(parts))))
    ELSE IF parts[2] = <<>>
    THEN Throw(Message("Invalid token format: missing payload", <<>>))
    ELSE LET parsed == JSONparse(base64UrlDecode(parts[2]))
         IN  IF parsed.ok THEN Return(parsed.value)
             ELSE Throw(Message("Failed to parse token payload: ", SyntaxErrorMessage))

\* isTokenExpired taking a missing exp claim for the epoch
isTokenExpiredMissingAsZero(claims, t) ==
    IF PropertyReadThrows(claims) THEN Throw(TypeError)
    ELSE IF Falsy(Property(claims, EXP)) THEN Return(t >= 0)
    ELSE LET ms == Times1000(Property(claims, EXP))
         IN  Return(~ms.nan /\ t >= ms.n)

\* t is the value Date.now() returns inside the call
isTokenExpired(claims, t) ==
    IF PropertyReadThrows(claims) THEN Throw(TypeError)
    ELSE IF Falsy(Property(claims, EXP)) THEN Return(FALSE)
    ELSE LET ms == Times1000(Property(claims, EXP))
         IN  Return(~ms.nan /\ t >= ms.n)

\* isTokenNotYetValid comparing with <= instead of <
isTokenNotYetValidInclusive(claims, t) ==
    IF PropertyReadThrows(claims) THEN Throw(TypeError)
    ELSE IF Falsy(Property(claims, NBF)) THEN Return(FALSE)
    ELSE LET ms == Times1000(Property(claims, NBF))
         IN  Return(~ms.nan /\ t <= ms.n)

isTokenNotYetValid(claims, t) ==
    IF PropertyReadThrows(claims) THEN Throw(TypeError)
    ELSE IF Falsy(Property(claims, NBF)) THEN Return(FALSE)
    ELSE LET ms == Times1000(Property(claims, NBF))
         IN  Return(~ms.nan /\ t < ms.n)

tokenExpiresIn(claims, t) ==
    IF PropertyReadThrows(claims) THEN Throw(TypeError)
    ELSE IF Falsy(Property(claims, EXP)) THEN Return(Number(0))
    ELSE LET ms == Times1000(Property(claims, EXP))
         IN  Return(IF ms.nan THEN NaN ELSE Number(ms.n - t))

IsWhitespace(c) == c \in {" ", "\t", "\n"}

RECURSIVE DropWhitespace(_)
DropWhitespace(s) ==
    IF s # <<>> /\ IsWhitespace(Head(s)) THEN DropWhitespace(Tail(s)) ELSE s

\* the replacement without the i flag: only the spelling "Bearer" is removed
removeBearerPrefixCaseSensitive(token) ==
    IF /\ Len(token) >= 7
       /\ SubSeq(token, 1, 6) = <<"B","e","a","r","e","r">>
       /\ IsWhitespace(token[7])
    THEN DropWhitespace(SubSeq(token, 7, Len(token)))
    ELSE token

\* token.replace(/^Bearer\s+/i, "")
removeBearerPrefix(token) ==
    IF /\ Len(token) >= 7
       /\ [i \in 1..6 |-> ToLower(token[i])] = <<"b","e","a","r","e","r">>
       /\ IsWhitespace(token[7])
    THEN DropWhitespace(SubSeq(token, 7, Len(token)))
    ELSE token

\* the emptiness test made on the token with its prefix already removed
IsEmptyAfterPrefix(token) == removeBearerPrefix(token) = <<>>

\* !token for a string: true of the empty string only
IsEmpty(token) == token = <<>>

\* the length test taking a token of exactly 10 characters for too short
TooShortAtTen(actualToken) == Len(actualToken) <= 10

\* actualToken.length < 10
TooShort(actualToken) == Len(actualToken) < 10

\* a TokenValidation object
Invalid(error) == [valid |-> FALSE, hasError |-> TRUE, error |-> error,
                   hasClaims |-> FALSE, claims |-> JUndefined]
InvalidWithClaims(error, claims) ==
    [valid |-> FALSE, hasError |-> TRUE, error |-> error,
     hasClaims |-> TRUE, claims |-> claims]
Valid == [valid |-> TRUE, hasError |-> FALSE, error |-> Message("", <<>>),
          hasClaims |-> FALSE, claims |-> JUndefined]
\* a last return statement that leaves the claims out: return { valid: true }
ValidWithoutClaims(claims) ==
    [valid |-> TRUE, hasError |-> FALSE, error |-> Message("", <<>>),
     hasClaims |-> FALSE, claims |-> JUndefined]

ValidWithClaims(claims) ==
    [valid |-> TRUE, hasError |-> FALSE, error |-> Message("", <<>>),
     hasClaims |-> TRUE, claims |-> claims]

\* claims.exp ? new Date(claims.exp * 1000).toISOString() : "unknown"
DateOrUnknown(v) ==
    IF Falsy(v) \/ Times1000(v).nan THEN <<"u","n","k","n","o","w","n">>
    ELSE toISOString(Times1000(v).n)

\* t1 and t2 are the values of Date.now() at the expiration check and at the
\* not-before check
validateAuthToken(token, t1, t2) ==
    IF IsEmpty(token) THEN Return(Invalid(Message("Auth token is empty", <<>>)))
    ELSE
    LET actualToken == removeBearerPrefix(token) IN
    IF ~includes(actualToken, ".")
    THEN IF TooShort(actualToken)
         THEN Return(Invalid(Message("Token appears too short (length: ",
                                     IntToString(Len(actualToken)) \o <<")">>)))
         ELSE Return(Valid)
    ELSE
    LET parsed == parseJWTToken(actualToken) IN
    IF parsed.threw THEN Return(Invalid(parsed.error))
    ELSE
    LET claims  == parsed.value
        expired == isTokenExpired(claims, t1)
        notYet  == isTokenNotYetValid(claims, t2)
    IN  IF expired.threw THEN Throw(expired.error)
        ELSE IF expired.value
        THEN Return(InvalidWithClaims(
                 Message("Token expired at ", DateOrUnknown(Property(claims, EXP))), claims))
        ELSE IF notYet.threw THEN Throw(notYet.error)
        ELSE IF notYet.value
        THEN Return(InvalidWithClaims(
                 Message("Token not yet valid until ", DateOrUnknown(Property(claims, NBF))),
                 claims))
        ELSE Return(ValidWithClaims(claims))

\* t1 and t2 are the values of Date.now() in isTokenExpired and tokenExpiresIn
getTokenInfo(token, t1, t2) ==
    LET actualToken == removeBearerPrefix(token)
        parsed      == parseJWTToken(actualToken)
    IN  IF parsed.threw THEN Throw(parsed.error)
        ELSE LET claims    == parsed.value
                 expired   == isTokenExpired(claims, t1)
                 expiresIn == tokenExpiresIn(claims, t2)
             IN  IF expired.threw THEN Throw(expired.error)
                 ELSE IF expiresIn.threw THEN Throw(expiresIn.error)
                 ELSE Return([claims |-> claims, isExpired |-> expired.value,
                              expiresIn |-> expiresIn.value])

-----------------------------------------------------------------------------
(* client/lib/config.ts and client/lib/transport.ts *)

\* an optional field of ClientConfig: undefined, or a value
Undefined == [defined |-> FALSE]
Some(v) == [defined |-> TRUE, value |-> v]

\* x ?? d
OrDefault(x, d) == IF x.defined THEN x.value ELSE d

DefaultBaseUrl ==
    <<"h","t","t","p","s",":","/","/","a","p","i",".","a","d","m","i","r",
      "a","l",".","i","o">>
DefaultTimeout == 30000
DefaultHttpVersion == "2"
DefaultAuthScheme == "bearer"

\* A Logger object is told by what its four methods do: those of noopLogger
\* have empty bodies, those of a console logger test the level they stand
\* for against minOrder, those of a consumer's own logger are the consumer's.
noopLogger == [kind |-> "noop"]

LogLevels == {"debug", "info", "warn", "error"}

LOG_LEVEL_ORDER == [debug |-> 0, info |-> 1, warn |-> 2, error |-> 3]

\* a console logger that leaves out the messages at its minimum level
shouldLogAboveOnly(minOrder, level) == LOG_LEVEL_ORDER[level] > minOrder

shouldLog(minOrder, level) == LOG_LEVEL_ORDER[level] >= minOrder

\* createConsoleLogger(minLevel = "debug")
createConsoleLogger(minLevel) ==
    [kind |-> "console", minOrder |-> LOG_LEVEL_ORDER[OrDefault(minLevel, "debug")]]

\* logger[level](message, ...args): the calls of console methods the method
\* makes, in order; none of the bodies can throw
LoggerCall(logger, level, message, args) ==
    IF logger.kind = "console" /\ shouldLog(logger.minOrder, level)
    THEN Return(<<[method |-> level, message |-> message, args |-> args]>>)
    ELSE Return(<<>>)

\* x ?? d

\* new URL(input): whether the WHATWG URL parser accepts a string of printable
\* ASCII characters as an absolute URL. Leading and trailing spaces are
\* dropped; a scheme (a letter, then letters, digits, "+", "-", ".") and ":"
\* must follow. After a special scheme any run of "/" and "\" is skipped and
\* a host must follow that is not empty and holds no forbidden character,
\* with an optional user name before "@" and an optional port of digits up
\* to 65535 after ":". After any other scheme everything is accepted, but a
\* host after "//" must hold no forbidden character. Hosts are taken to be
\* names (not IPv4 or IPv6 literals).
IsAlpha(c) ==
    /\ c \in DOMAIN AsciiIndex
    /\ CharCode(ToLower(c)) >= 97
    /\ CharCode(ToLower(c)) <= 122

SchemeChar(c) == IsAlpha(c) \/ IsDigit(c) \/ c \in {"+", "-", "."}

SpecialSchemes ==
    {<<"h","t","t","p">>, <<"h","t","t","p","s">>, <<"w","s">>, <<"w","s","s">>,
     <<"f","t","p">>}

ForbiddenHostChars == {" ", "#", "/", ":", "<", ">", "?", "@", "[", "\\", "]", "^", "|", "%"}

\* the least position of s whose character is in chars (member) or is not
\* (~member), or Len(s) + 1
FirstWhere(s, chars, member) ==
    IF \E i \in 1..Len(s) : (s[i] \in chars) = member
    THEN CHOOSE i \in 1..Len(s) :
            /\ (s[i] \in chars) = member
            /\ \A j \in 1..(i - 1) : (s[j] \in chars) # member
    ELSE Len(s) + 1

\* the greatest position of s whose character is in chars (member) or is
\* not (~member), or 0
LastWhere(s, chars, member) ==
    IF \E i \in 1..Len(s) : (s[i] \in chars) = member
    THEN CHOOSE i \in 1..Len(s) :
            /\ (s[i] \in chars) = member
            /\ \A j \in (i + 1)..Len(s) : (s[j] \in chars) # member
    ELSE 0

TrimSpaces(s) ==
    SubSeq(s, FirstWhere(s, {" "}, FALSE), LastWhere(s, {" "}, FALSE))

\* host, or host:port
HostAndPortOk(hp) ==
    \E colon \in {LastWhere(hp, {":"}, TRUE)} :
    \E host \in {IF colon = 0 THEN hp ELSE SubSeq(hp, 1, colon - 1)} :
    \E port \in {IF colon = 0 THEN <<>> ELSE SubSeq(hp, colon + 1, Len(hp))} :
        /\ host # <<>>
        /\ \A i \in 1..Len(host) : host[i] \notin ForbiddenHostChars
        /\ \A i \in 1..Len(port) : IsDigit(port[i])
        /\ Len(port) <= 5
        /\ StringToNat(port) <= 65535

\* the authority of a special URL: what follows the slashes, up to the path
AuthorityOk(rest) ==
    \E start \in {FirstWhere(rest, {"/", "\\"}, FALSE)} :
    \E after \in {SubSeq(rest, start, Len(rest))} :
    \E stop \in {FirstWhere(after, {"/", "\\", "?", "#"}, TRUE)} :
    \E authority \in {SubSeq(after, 1, stop - 1)} :
    \E at \in {LastWhere(authority, {"@"}, TRUE)} :
    \E hp \in {SubSeq(authority, at + 1, Len(authority))} :
        HostAndPortOk(hp)

\* the host of a URL with another scheme, when "//" announces one
OpaqueHostOk(rest) ==
    \E after \in {SubSeq(rest, 3, Len(rest))} :
    \E stop \in {FirstWhere(after, {"/", "?", "#"}, TRUE)} :
    \E authority \in {SubSeq(after, 1, stop - 1)} :
    \E at \in {LastWhere(authority, {"@"}, TRUE)} :
    \E hp \in {SubSeq(authority, at + 1, Len(authority))} :
    \E colon \in {LastWhere(hp, {":"}, TRUE)} :
    \E host \in {IF colon = 0 THEN hp ELSE SubSeq(hp, 1, colon - 1)} :
        \A i \in 1..Len(host) : host[i] \notin (ForbiddenHostChars \ {"%"})

URLParses(input) ==
    \E s \in {TrimSpaces(input)} :
    \E colon \in {FirstWhere(s, {":"}, TRUE)} :
        /\ colon >= 2 /\ colon <= Len(s)
        /\ IsAlpha(s[1])
        /\ \A i \in 2..(colon - 1) : SchemeChar(s[i])
        /\ \E scheme \in {[i \in 1..(colon - 1) |-> ToLower(s[i])]} :
           \E rest \in {SubSeq(s, colon + 1, Len(s))} :
               IF scheme \in SpecialSchemes THEN AuthorityOk(rest)
               ELSE IF Len(rest) >= 2 /\ SubSeq(rest, 1, 2) = <<"/","/">>
               THEN OpaqueHostOk(rest)
               ELSE TRUE

\* a resolveConfig whose try block never throws
NewURLNeverThrows(baseUrl) == FALSE

\* try { new URL(baseUrl) } catch { ... }: whether the catch block is entered
NewURLThrows(baseUrl) == ~URLParses(baseUrl)

\* the replacement with the pattern /\/+$/: every trailing slash goes
removeAllTrailingSlashes(baseUrl) ==
    SubSeq(baseUrl, 1, LastWhere(baseUrl, {"/"}, FALSE))

\* baseUrl.replace(/\/$/, "")
removeTrailingSlash(baseUrl) ==
    IF baseUrl # <<>> /\ baseUrl[Len(baseUrl)] = "/"
    THEN SubSeq(baseUrl, 1, Len(baseUrl) - 1)
    ELSE baseUrl

\* resolveConfig with || in the place of ??: a supplied timeout of 0 is
\* replaced by the default
resolveConfigDefaultingFalsy(cfg) ==
    LET baseUrl == OrDefault(cfg.baseUrl, DefaultBaseUrl) IN
    IF NewURLThrows(baseUrl)
    THEN Throw(Message("Invalid baseUrl: ", baseUrl))
    ELSE Return([baseUrl     |-> removeTrailingSlash(baseUrl),
                 authToken   |-> cfg.authToken,
                 authScheme  |-> OrDefault(cfg.authScheme, DefaultAuthScheme),
                 timeout     |-> IF cfg.timeout.defined /\ cfg.timeout.value # 0
                                 THEN cfg.timeout.value ELSE DefaultTimeout,
                 httpVersion |-> OrDefault(cfg.httpVersion, DefaultHttpVersion),
                 headers     |-> cfg.headers,
                 logger      |-> OrDefault(cfg.logger, noopLogger)])

\* resolveConfig(config): the resolved configuration, or the error thrown
resolveConfig(cfg) ==
    LET baseUrl == OrDefault(cfg.baseUrl, DefaultBaseUrl) IN
    IF NewURLThrows(baseUrl)
    THEN Throw(Message("Invalid baseUrl: ", baseUrl))
    ELSE Return([baseUrl     |-> removeTrailingSlash(baseUrl),
                 authToken   |-> cfg.authToken,
                 authScheme  |-> OrDefault(cfg.authScheme, DefaultAuthScheme),
                 timeout     |-> OrDefault(cfg.timeout, DefaultTimeout),
                 httpVersion |-> OrDefault(cfg.httpVersion, DefaultHttpVersion),
                 headers     |-> cfg.headers,
                 logger      |-> OrDefault(cfg.logger, noopLogger)])

\* A Headers object: for each header name, in lower case as Headers compares
\* names, the values the request carries under it.
NoHeaders == <<>>

Lower(name) == [i \in 1..Len(name) |-> ToLower(name[i])]

\* the bytes a Headers object takes off both ends of a value: space, tab,
\* line feed and carriage return
HttpWhitespace == {" ", "\t", "\n", "\r"}

RECURSIVE StripLeadingWhitespace(_)
StripLeadingWhitespace(value) ==
    IF value # <<>> /\ Head(value) \in HttpWhitespace
    THEN StripLeadingWhitespace(Tail(value))
    ELSE value

RECURSIVE StripTrailingWhitespace(_)
StripTrailingWhitespace(value) ==
    IF value # <<>> /\ value[Len(value)] \in HttpWhitespace
    THEN StripTrailingWhitespace(SubSeq(value, 1, Len(value) - 1))
    ELSE value

\* a Headers object that keeps the white space at the ends of a value
NormalizeKeepingWhitespace(value) == value

\* the value as a Headers object stores it
Normalize(value) == StripTrailingWhitespace(StripLeadingWhitespace(value))

\* a Headers object throws a TypeError for a value that, normalized, still
\* holds a line feed or a carriage return
IsValidHeaderValue(value) ==
    \A i \in 1..Len(Normalize(value)) : Normalize(value)[i] \notin {"\n", "\r"}

\* Headers.prototype.append(name, value)
HeadersAppend(h, name, value) ==
    [n \in DOMAIN h \cup {Lower(name)} |->
        IF n = Lower(name)
        THEN (IF n \in DOMAIN h THEN h[n] ELSE <<>>) \o <<Normalize(value)>>
        ELSE h[n]]

\* Headers.prototype.set(name, value): the one value under the name from now on
HeadersSet(h, name, value) ==
    [n \in DOMAIN h \cup {Lower(name)} |->
        IF n = Lower(name) THEN <<Normalize(value)>> ELSE h[n]]

AuthorizationName == <<"A","u","t","h","o","r","i","z","a","t","i","o","n">>

createTimeoutInterceptor(timeoutMs) == [kind |-> "timeout", timeoutMs |-> timeoutMs]

createHeadersInterceptor(headers) == [kind |-> "headers", headers |-> headers]

\* an authorization interceptor that writes Bearer whatever the scheme
createAuthInterceptorAlwaysBearer(authToken, scheme) ==
    [kind |-> "auth", prefix |-> <<"B","e","a","r","e","r">>, authToken |-> authToken]

createAuthInterceptor(authToken, scheme) ==
    [kind |-> "auth",
     prefix |-> IF scheme = "token" THEN <<"T","o","k","e","n">>
                ELSE <<"B","e","a","r","e","r">>,
     authToken |-> authToken]

\* The headers object of a configuration is the sequence of its entries
\* <<key, value>>, in the order Object.entries lists them; its keys differ.
Keys(headers) == {headers[i][1] : i \in 1..Len(headers)}

\* for (const [key, value] of Object.entries(headers)) req.header.set(key, value);
RECURSIVE SetEntries(_, _)
SetEntries(h, headers) ==
    IF headers = <<>> THEN h
    ELSE SetEntries(HeadersSet(h, Head(headers)[1], Head(headers)[2]), Tail(headers))

\* an authorization interceptor that leaves alone a request that already
\* has an Authorization header
InterceptHeadersKeepingAuthorization(interceptor, h) ==
    IF interceptor.kind = "headers"
    THEN SetEntries(h, interceptor.headers)
    ELSE IF interceptor.kind = "auth" /\ Lower(AuthorizationName) \notin DOMAIN h
    THEN HeadersSet(h, AuthorizationName,
                    interceptor.prefix \o <<" ">> \o interceptor.authToken)
    ELSE h

\* what an interceptor does to the headers of the request before it calls
\* next: the timeout interceptor leaves them alone
InterceptHeaders(interceptor, h) ==
    IF interceptor.kind = "headers"
    THEN SetEntries(h, interceptor.headers)
    ELSE IF interceptor.kind = "auth"
    THEN HeadersSet(h, AuthorizationName,
                    interceptor.prefix \o <<" ">> \o interceptor.authToken)
    ELSE h

\* the interceptor's call of set throws, and the request goes no further
InterceptThrows(interceptor) ==
    IF interceptor.kind = "headers"
    THEN \E i \in 1..Len(interceptor.headers) : ~IsValidHeaderValue(interceptor.headers[i][2])
    ELSE IF interceptor.kind = "auth"
    THEN ~IsValidHeaderValue(interceptor.prefix \o <<" ">> \o interceptor.authToken)
    ELSE FALSE

SomeInterceptorThrows(interceptors) ==
    \E i \in 1..Len(interceptors) : InterceptThrows(interceptors[i])

\* the headers of a request once the interceptors have run in list order,
\* the first of the list first
RECURSIVE SendThrough(_, _)
SendThrough(interceptors, h) ==
    IF interceptors = <<>> THEN h
    ELSE SendThrough(Tail(interceptors), InterceptHeaders(Head(interceptors), h))

\* the interceptors array with the headers interceptor pushed for any headers
\* object, empty or not
InterceptorsWithoutKeyCheck(cfg) ==
    LET resolved == resolveConfig(cfg).value IN
    <<createTimeoutInterceptor(resolved.timeout)>>
    \o (IF resolved.headers.defined
        THEN <<createHeadersInterceptor(resolved.headers.value)>> ELSE <<>>)
    \o (IF resolved.authToken.defined /\ resolved.authToken.value # <<>>
        THEN <<createAuthInterceptor(resolved.authToken.value, resolved.authScheme)>>
        ELSE <<>>)

\* the interceptors array createTransport hands to createConnectTransport,
\* for a configuration that resolveConfig accepts
Interceptors(cfg) ==
    LET resolved == resolveConfig(cfg).value IN
    <<createTimeoutInterceptor(resolved.timeout)>>
    \o (IF resolved.headers.defined /\ Len(resolved.headers.value) > 0
        THEN <<createHeadersInterceptor(resolved.headers.value)>> ELSE <<>>)
    \o (IF resolved.authToken.defined /\ resolved.authToken.value # <<>>
        THEN <<createAuthInterceptor(resolved.authToken.value, resolved.authScheme)>>
        ELSE <<>>)

\* createTransport returns a new transport object, unless resolveConfig
\* throws; id tells the objects apart
createTransport(cfg, id) ==
    LET resolved == resolveConfig(cfg) IN
    IF resolved.threw THEN Throw(resolved.error)
    ELSE Return([id           |-> id,
                 baseUrl      |-> resolved.value.baseUrl,
                 httpVersion  |-> resolved.value.httpVersion,
                 interceptors |-> Interceptors(cfg)])

-----------------------------------------------------------------------------
(* client/client.ts *)

Services == {"cluster", "runner", "user", "application", "component", "connection",
             "deployment", "environment", "healthcheck", "source", "state", "variable"}

\* a closure variable that is still undefined
NoHandle == [api |-> "none", transport |-> 0, serial |-> 0]

NoTransport == [id |-> 0, baseUrl |-> <<>>, httpVersion |-> "", interceptors |-> <<>>]

NoError == Message("", <<>>)

\* createClient(config): the transport and the message handed to the logger,
\* or the error thrown by resolveConfig
createClient(cfg, id) ==
    LET resolved  == resolveConfig(cfg)
        transport == createTransport(cfg, id)
    IN  IF resolved.threw THEN Throw(resolved.error)
        ELSE IF transport.threw THEN Throw(transport.error)
        ELSE Return([transport |-> transport.value,
                     logger    |-> resolved.value.logger,
                     logged    |-> <<[level |-> "debug",
                                      message |-> "connected to Admiral API",
                                      arg |-> resolved.value.baseUrl]>>])

\* createConnectClient(API, transport) returns a new handle object; serial
\* tells the handles of one service apart
createConnectClient(api, transport, serial) ==
    [api |-> api, transport |-> transport.id, serial |-> serial]

\* a getter that constructs a handle at every read
GetterWithoutMemo(s) ==
    [handle  |-> createConnectClient(s, client.transport, constructed[s] + 1),
     created |-> TRUE]

\* The body of a service getter: the handle it returns and whether it had to
\* construct it.
Getter(s) ==
    IF handles[s] = NoHandle
    THEN [handle  |-> createConnectClient(s, client.transport, constructed[s] + 1),
          created |-> TRUE]
    ELSE [handle |-> handles[s], created |-> FALSE]

\* the test passing an empty token on to the utilities
NoAuthTokenWhenUndefined(cfg) == ~cfg.authToken.defined

\* !config.authToken: the field is undefined or the empty string
NoAuthToken(cfg) == ~cfg.authToken.defined \/ cfg.authToken.value = <<>>

\* client.validateToken(); t1, t2 as in validateAuthToken
clientValidateToken(cfg, t1, t2) ==
    IF NoAuthToken(cfg)
    THEN Return(Invalid(Message("No auth token configured", <<>>)))
    ELSE validateAuthToken(cfg.authToken.value, t1, t2)

NullInfo == [isNull |-> TRUE]
Info(v) == [isNull |-> FALSE, claims |-> v.claims, isExpired |-> v.isExpired,
            expiresIn |-> v.expiresIn]

\* client.getTokenInfo(); t1, t2 as in getTokenInfo
clientGetTokenInfo(cfg, t1, t2) ==
    IF NoAuthToken(cfg)
    THEN Return(NullInfo)
    ELSE LET r == getTokenInfo(cfg.authToken.value, t1, t2)
         IN  IF r.threw THEN Return(NullInfo) ELSE Return(Info(r.value))

\* the functions of auth.ts that client.validateToken() invokes
clientValidateTokenCalls(cfg) ==
    IF NoAuthToken(cfg) THEN {} ELSE {"validateAuthToken"}

\* the functions of auth.ts that client.getTokenInfo() invokes; getTokenInfo
\* calls parseJWTToken on every token it is given
clientGetTokenInfoCalls(cfg) ==
    IF NoAuthToken(cfg) THEN {} ELSE {"getTokenInfo", "parseJWTToken"}

-----------------------------------------------------------------------------
(* Inputs *)

\* the values of an exp or nbf claim, in seconds
SecDomain == -1..MaxSec

\* an exp or nbf claim: absent, or present with a value of SecDomain
OptSec == {[has |-> FALSE, val |-> 0]} \cup {[has |-> TRUE, val |-> v] : v \in SecDomain}

UserId == <<"u","s","e","r","-","1","2","3">>

\* the claims object { sub: "user-123", exp?: e, nbf?: n }
MakeClaims(e, n) ==
    JObj(<< <<SUB, JStr(UserId)>> >>
         \o (IF e.has THEN << <<EXP, JNum(e.val)>> >> ELSE <<>>)
         \o (IF n.has THEN << <<NBF, JNum(n.val)>> >> ELSE <<>>))

ClaimsInputs == {MakeClaims(e, n) : e \in OptSec, n \in OptSec}

\* the instants of the seconds 0 .. MaxSec, one millisecond before and after
ClockValues ==
    {t \in UNION {{1000 * k - 1, 1000 * k, 1000 * k + 1} : k \in 0..MaxSec} : t >= 0}

JWTHeader ==
    JObj(<< <<(<<"a","l","g">>), JStr(<<"H","S","2","5","6">>)>>,
            <<(<<"t","y","p">>), JStr(<<"J","W","T">>)>> >>)

Signature == <<"t","e","s","t","-","s","i","g","n","a","t","u","r","e">>

\* the helper of the test suites: header.payload.signature, each part btoa
createTestJWT(payload) ==
    btoa(stringify(JWTHeader)) \o <<".">> \o btoa(stringify(payload)) \o <<".">> \o Signature

\* header.payload.signature for a payload text that is not JSON
RawJWT(text) == btoa(stringify(JWTHeader)) \o <<".">> \o btoa(text) \o <<".">> \o Signature

ObjectTokens == {createTestJWT(c) : c \in ClaimsInputs}

\* three-segment tokens whose payload decodes to JSON that is no object
NonObjectTokens ==
    {createTestJWT(v) : v \in {JNull, JNum(5), JStr(UserId), JArr(<<>>), JArr(<<JNum(1)>>)}}

OpaqueTokens ==
    {<<"s","h","o","r","t">>,
     <<"i","n","v","a","l","i","d","-","t","o","k","e","n">>,
     Repeat("a", 9), Repeat("a", 10)}

MalformedTokens ==
    {<<"o","n","l","y",".","t","w","o">>,
     <<"a",".","b",".","c",".","d">>,
     <<".",".",".",".">>,
     Repeat("a", 10) \o <<".">> \o Repeat("b", 10),
     <<"a",".",".","c">>,
     <<"v","a","l","i","d",".","!","!","!","i","n","v","a","l","i","d","!","!","!",".",
       "s","i","g","n","a","t","u","r","e">>,
     RawJWT(<<"n","o","t","-","j","s","o","n">>)}

\* tokens carrying the prefix the utilities strip
PrefixedTokens ==
    {p \o t : p \in {<<"B","e","a","r","e","r"," ">>, <<"b","E","A","R","e","r"," "," ">>},
              t \in {createTestJWT(MakeClaims([has |-> TRUE, val |-> 1], [has |-> FALSE, val |-> 0])),
                     Repeat("a", 10), <<"s","h","o","r","t">>}}

\* the prefix and nothing after it: empty once the prefix is removed
BarePrefixTokens == {<<"B","e","a","r","e","r"," ">>, <<"b","e","a","r","e","r"," "," ">>}

TokenInputs ==
    {<<>>} \cup ObjectTokens \cup NonObjectTokens \cup OpaqueTokens
        \cup MalformedTokens \cup PrefixedTokens \cup BarePrefixTokens

\* the word Bearer in each of its 64 letter-casings
BearerCasings ==
    LET lower == <<"b","e","a","r","e","r">>
        upper == <<"B","E","A","R","E","R">>
    IN  {[i \in 1..6 |-> IF i \in S THEN upper[i] ELSE lower[i]] : S \in SUBSET (1..6)}

\* non-empty tokens to put a prefix in front of: JWTs that are valid, expired
\* and not yet valid, a payload that is null, opaque and malformed tokens,
\* tokens that begin with white space, and tokens that carry a prefix already
PrefixSubjects ==
    {createTestJWT(MakeClaims(e, n)) :
        e \in {[has |-> FALSE, val |-> 0], [has |-> TRUE, val |-> 1]},
        n \in {[has |-> FALSE, val |-> 0], [has |-> TRUE, val |-> 1]}}
    \cup {createTestJWT(JNull)}
    \cup OpaqueTokens \cup MalformedTokens
    \cup {Repeat(" ", 10), <<" ">> \o Repeat("a", 10), <<" ","a",".","b">>}
    \cup {<<"B","e","a","r","e","r"," ">> \o t : t \in {Repeat("a", 10), <<"s","h","o","r","t">>}}

XCustomHeader == <<"X","-","C","u","s","t","o","m","-","H","e","a","d","e","r">>

HeaderValue == <<"v","a","l","u","e">>

\* the headers a caller's request carries before the interceptors run: none,
\* an Authorization header of its own, or two values under that name
CallerHeaderInputs ==
    {NoHeaders,
     HeadersAppend(NoHeaders, AuthorizationName, <<"c","a","l","l","e","r">>),
     HeadersAppend(HeadersAppend(NoHeaders, <<"a","u","t","h","o","r","i","z","a","t","i","o","n">>,
                                 <<"o","n","e">>),
                   AuthorizationName, <<"t","w","o">>)}

HeaderInputs ==
    {Undefined, Some(<<>>), Some(<< <<XCustomHeader, HeaderValue>> >>),
     Some(<< <<XCustomHeader, HeaderValue>>, <<AuthorizationName, HeaderValue>> >>)}

\* more headers objects: an authorization entry spelt in lower case whose
\* value has white space at both ends, and two keys that differ in letter
\* case only
CustomHeaderInputs ==
    {Some(<< << <<"a","u","t","h","o","r","i","z","a","t","i","o","n">>,
                <<" ","c","u","s","t","o","m"," ">> >> >>),
     Some(<< <<XCustomHeader, <<"f","i","r","s","t">> >>,
             <<Lower(XCustomHeader), <<"s","e","c","o","n","d">> >> >>)}

TimeoutInputs == {Undefined} \cup {Some(t) : t \in 0..MaxTimeout}

SchemeInputs == {Undefined, Some("bearer"), Some("token")}

\* a ClientConfig that leaves baseUrl, httpVersion and logger out
MakeConfig(token, scheme, timeout, headers) ==
    [baseUrl |-> Undefined, authToken |-> token, authScheme |-> scheme,
     timeout |-> timeout, httpVersion |-> Undefined, headers |-> headers,
     logger |-> Undefined]

CustomUrl == <<"h","t","t","p","s",":","/","/","c","u","s","t","o","m",".",
               "a","p","i",".","i","o">>

\* base URLs that new URL accepts
AcceptedUrls ==
    {CustomUrl, CustomUrl \o <<"/">>, CustomUrl \o <<"/","/">>,
     CustomUrl \o <<"/","v","1","/">>,
     <<"h","t","t","p",":","/","/","l","o","c","a","l","h","o","s","t",":","8","0","8","0","/">>,
     <<"l","o","c","a","l","h","o","s","t",":","8","0","8","0">>,
     <<"H","T","T","P","S",":","a",".","i","o">>,
     <<" ">> \o CustomUrl \o <<"/"," ">>}

\* base URLs that new URL rejects
RejectedUrls ==
    {<<>>, <<"/">>, <<"n","o","t","-","a","-","u","r","l">>,
     <<"a","p","i",".","a","d","m","i","r","a","l",".","i","o">>,
     <<"h","t","t","p","s",":","/","/">>,
     <<"h","t","t","p","s",":","/","/","a"," ","b",".","i","o">>,
     <<"h","t","t","p",":","/","/","a",":","9","9","9","9","9">>,
     <<"/","/","a",".","i","o","/">>}

BaseUrlInputs == {Undefined} \cup {Some(u) : u \in AcceptedUrls \cup RejectedUrls}

HttpVersionInputs == {Undefined, Some("1.1"), Some("2")}

LoggerInputs == {Undefined, Some([kind |-> "custom"])}

\* the tokens a caller configures and later assigns to config.authToken: none,
\* the empty one, an opaque one and a JWT that expires at 1000 ms
ExpiringJWT ==
    createTestJWT(MakeClaims([has |-> TRUE, val |-> 1], [has |-> FALSE, val |-> 0]))

MutationTokenInputs == {Undefined, Some(<<>>), Some(Repeat("a", 10)), Some(ExpiringJWT)}

\* the minimum levels createConsoleLogger is called with, and with none
MinLevelInputs == {Undefined} \cup {Some(l) : l \in LogLevels}

LogMessageInputs == {"", "test", "connected to Admiral API"}

LogArgsInputs == {<<>>, <<DefaultBaseUrl>>}

\* configurations for resolveConfig: every base URL with the other fields
\* left out or all supplied, and every combination of the other fields with
\* the base URL left out or supplied with a trailing slash
ConfigInputs ==
    {[MakeConfig(tk, sc, ms, hd) EXCEPT !.baseUrl = u, !.httpVersion = hv, !.logger = lg] :
        u \in BaseUrlInputs,
        tk \in {Undefined}, sc \in {Undefined}, ms \in {Undefined, Some(0)},
        hv \in {Undefined}, hd \in {Undefined}, lg \in {Undefined}}
    \cup
    {[MakeConfig(tk, sc, ms, hd) EXCEPT !.baseUrl = u, !.httpVersion = hv, !.logger = lg] :
        u \in {Undefined, Some(CustomUrl \o <<"/">>)},
        tk \in {Undefined, Some(<<>>), Some(Repeat("a", 10))},
        sc \in SchemeInputs, ms \in TimeoutInputs, hv \in HttpVersionInputs,
        hd \in {Undefined, Some(<<>>), Some(<< <<XCustomHeader, HeaderValue>> >>)},
        lg \in LoggerInputs}

-----------------------------------------------------------------------------
(* State *)

NoClient ==
    [created |-> FALSE, threw |-> FALSE, error |-> NoError, transport |-> NoTransport,
     transportsCreated |-> 0, logger |-> noopLogger, logged |-> <<>>]

NoRead == [service |-> "none", handle |-> NoHandle]

NoCall == [called |-> FALSE]

NoRequest ==
    [id |-> 0, status |-> "none", timeoutMs |-> 0, start |-> 0, due |-> 0,
     timerArmed |-> FALSE, timerFired |-> FALSE, hasSignal |-> FALSE,
     callerAborted |-> FALSE, abortedAtStart |-> FALSE, controllerAborted |-> FALSE,
     callerHeader |-> NoHeaders, header |-> NoHeaders, left |-> FALSE]

\* everything but the configuration and the clock
InitRest ==
    /\ client = NoClient
    /\ handles = [s \in Services |-> NoHandle]
    /\ constructed = [s \in Services |-> 0]
    /\ firstReturned = [s \in Services |-> NoHandle]
    /\ lastRead = NoRead
    /\ validation = NoCall
    /\ tokenInfo = NoCall
    /\ probe = NoCall
    /\ req = NoRequest

-----------------------------------------------------------------------------
(* createClient and the service accessors *)

\* createClient(config): one transport, no handle yet; or the error of
\* resolveConfig, and then no client
CreateClient ==
    /\ ~client.created
    /\ ~client.threw
    /\ LET made == createClient(config, client.transportsCreated + 1) IN
        client' = IF made.threw
                  THEN [client EXCEPT !.threw = TRUE, !.error = made.error]
                  ELSE [created |-> TRUE, threw |-> FALSE, error |-> NoError,
                        transport |-> made.value.transport,
                        transportsCreated |-> client.transportsCreated + 1,
                        logger |-> made.value.logger,
                        logged |-> made.value.logged]
    /\ UNCHANGED <<config, handles, constructed, firstReturned, lastRead, now,
                   validation, tokenInfo, probe, req>>

\* a read of client.<s>
ReadService(s) ==
    /\ client.created
    /\ LET got == Getter(s) IN
        /\ handles' = [handles EXCEPT ![s] = got.handle]
        /\ constructed' = [constructed EXCEPT
                              ![s] = IF got.created THEN @ + 1 ELSE @]
        /\ firstReturned' = [firstReturned EXCEPT
                                ![s] = IF @ = NoHandle THEN got.handle ELSE @]
        /\ lastRead' = [service |-> s, handle |-> got.handle]
    /\ UNCHANGED <<config, client, now, validation, tokenInfo, probe, req>>

ReadAnyService == \E s \in Services : ReadService(s)

\* client.cluster is read
ReadCluster == ReadService("cluster")

-----------------------------------------------------------------------------
(* The token methods of the client and the exported utilities *)

\* the clock advances
Tick ==
    /\ \E t \in ClockValues : t > now /\ now' = t
    /\ UNCHANGED <<config, client, handles, constructed, firstReturned, lastRead,
                   validation, tokenInfo, probe, req>>

\* The model holds the outcome of one call at a time: a call is made when no
\* outcome is held, and the caller drops the outcome before the next call.
NoOutcomeHeld == ~validation.called /\ ~tokenInfo.called /\ ~probe.called

\* the caller drops the outcome of its last call
Discard ==
    /\ ~NoOutcomeHeld
    /\ validation' = NoCall
    /\ tokenInfo' = NoCall
    /\ probe' = NoCall
    /\ UNCHANGED <<config, client, handles, constructed, firstReturned, lastRead, now, req>>

\* After createClient the caller assigns to the authToken of the config
\* object it passed: config.authToken = token. The client's methods read the
\* property of that object at each call (client.ts 217, 220, 224, 228); the
\* interceptors were made from its value at createClient.
SetAuthToken ==
    /\ client.created
    /\ \E token \in MutationTokenInputs :
        /\ token # config.authToken
        /\ config' = [config EXCEPT !.authToken = token]
    /\ UNCHANGED <<client, handles, constructed, firstReturned, lastRead, now,
                   validation, tokenInfo, probe, req>>

\* client.validateToken(); the clock may advance between its two readings;
\* inspected is the config.authToken the method reads
ValidateToken ==
    /\ client.created
    /\ NoOutcomeHeld
    /\ \E t2 \in ClockValues :
        /\ t2 >= now
        /\ validation' = [called |-> TRUE, at1 |-> now, at2 |-> t2,
                          inspected |-> config.authToken,
                          calls |-> clientValidateTokenCalls(config),
                          outcome |-> clientValidateToken(config, now, t2)]
        /\ now' = t2
    /\ UNCHANGED <<config, client, handles, constructed, firstReturned, lastRead,
                   tokenInfo, probe, req>>

\* client.getTokenInfo(); the clock may advance between its two readings
GetTokenInfo ==
    /\ client.created
    /\ NoOutcomeHeld
    /\ \E t2 \in ClockValues :
        /\ t2 >= now
        /\ tokenInfo' = [called |-> TRUE, at1 |-> now, at2 |-> t2,
                         inspected |-> config.authToken,
                         calls |-> clientGetTokenInfoCalls(config),
                         outcome |-> clientGetTokenInfo(config, now, t2)]
        /\ now' = t2
    /\ UNCHANGED <<config, client, handles, constructed, firstReturned, lastRead,
                   validation, probe, req>>

\* validateAuthToken(token) called directly on the configured string
CallValidateAuthToken ==
    /\ config.authToken.defined
    /\ NoOutcomeHeld
    /\ \E t2 \in ClockValues :
        /\ t2 >= now
        /\ probe' = [called |-> TRUE, fn |-> "validateAuthToken",
                     token |-> config.authToken.value, at1 |-> now, at2 |-> t2,
                     outcome |-> validateAuthToken(config.authToken.value, now, t2)]
        /\ now' = t2
    /\ UNCHANGED <<config, client, handles, constructed, firstReturned, lastRead,
                   validation, tokenInfo, req>>

\* resolveConfig(config) called directly; input is the config object as the
\* call leaves it
CallResolveConfig ==
    /\ NoOutcomeHeld
    /\ probe' = [called |-> TRUE, fn |-> "resolveConfig", input |-> config,
                 outcome |-> resolveConfig(config)]
    /\ UNCHANGED <<config, client, handles, constructed, firstReturned, lastRead, now,
                   validation, tokenInfo, req>>

\* createTransport(config) called directly
CallCreateTransport ==
    /\ NoOutcomeHeld
    /\ probe' = [called |-> TRUE, fn |-> "createTransport", input |-> config,
                 outcome |-> createTransport(config, 1)]
    /\ UNCHANGED <<config, client, handles, constructed, firstReturned, lastRead, now,
                   validation, tokenInfo, req>>

\* parseJWTToken(token) called directly on the configured string
CallParseJWTToken ==
    /\ config.authToken.defined
    /\ NoOutcomeHeld
    /\ probe' = [called |-> TRUE, fn |-> "parseJWTToken",
                 token |-> config.authToken.value,
                 outcome |-> parseJWTToken(config.authToken.value)]
    /\ UNCHANGED <<config, client, handles, constructed, firstReturned, lastRead, now,
                   validation, tokenInfo, req>>

\* a method of a logger made by createConsoleLogger is called
CallConsoleLogger ==
    /\ NoOutcomeHeld
    /\ \E minLevel \in MinLevelInputs, level \in LogLevels,
          message \in LogMessageInputs, args \in LogArgsInputs :
        probe' = [called |-> TRUE, fn |-> "createConsoleLogger", minLevel |-> minLevel,
                  level |-> level, message |-> message, args |-> args,
                  outcome |-> LoggerCall(createConsoleLogger(minLevel), level, message, args)]
    /\ UNCHANGED <<config, client, handles, constructed, firstReturned, lastRead, now,
                   validation, tokenInfo, req>>

\* a method of the logger of the resolved configuration is called
CallResolvedLogger ==
    /\ NoOutcomeHeld
    /\ ~resolveConfig(config).threw
    /\ \E level \in LogLevels, message \in LogMessageInputs, args \in LogArgsInputs :
        probe' = [called |-> TRUE, fn |-> "resolved.logger",
                  logger |-> resolveConfig(config).value.logger,
                  level |-> level, message |-> message, args |-> args,
                  outcome |-> LoggerCall(resolveConfig(config).value.logger,
                                         level, message, args)]
    /\ UNCHANGED <<config, client, handles, constructed, firstReturned, lastRead, now,
                   validation, tokenInfo, req>>

\* a direct call of one of the utilities on a claims object
CallOnClaims(fn, c, outcome) ==
    /\ NoOutcomeHeld
    /\ probe' = [called |-> TRUE, fn |-> fn, claims |-> c, at |-> now,
                 outcome |-> outcome]
    /\ UNCHANGED <<config, client, handles, constructed, firstReturned, lastRead, now,
                   validation, tokenInfo, req>>

CallIsTokenExpired ==
    \E c \in ClaimsInputs : CallOnClaims("isTokenExpired", c, isTokenExpired(c, now))

CallIsTokenNotYetValid ==
    \E c \in ClaimsInputs :
        CallOnClaims("isTokenNotYetValid", c, isTokenNotYetValid(c, now))

CallTokenExpiresIn ==
    \E c \in ClaimsInputs : CallOnClaims("tokenExpiresIn", c, tokenExpiresIn(c, now))

\* validateAuthToken on the configured token and on the same token behind a
\* "Bearer " prefix in some letter-casing, at the same clock readings
ComparePrefixedValidation ==
    /\ config.authToken.defined
    /\ NoOutcomeHeld
    /\ \E w \in BearerCasings, t2 \in ClockValues :
        /\ t2 >= now
        /\ LET token == config.authToken.value IN
           probe' = [called |-> TRUE, fn |-> "validateAuthToken", token |-> token,
                     prefix |-> w \o <<" ">>, at1 |-> now, at2 |-> t2,
                     outcome |-> validateAuthToken(token, now, t2),
                     prefixed |-> validateAuthToken(w \o <<" ">> \o token, now, t2)]
    /\ UNCHANGED <<config, client, handles, constructed, firstReturned, lastRead, now,
                   validation, tokenInfo, req>>

\* the same comparison for getTokenInfo
ComparePrefixedTokenInfo ==
    /\ config.authToken.defined
    /\ NoOutcomeHeld
    /\ \E w \in BearerCasings, t2 \in ClockValues :
        /\ t2 >= now
        /\ LET token == config.authToken.value IN
           probe' = [called |-> TRUE, fn |-> "getTokenInfo", token |-> token,
                     prefix |-> w \o <<" ">>, at1 |-> now, at2 |-> t2,
                     outcome |-> getTokenInfo(token, now, t2),
                     prefixed |-> getTokenInfo(w \o <<" ">> \o token, now, t2)]
    /\ UNCHANGED <<config, client, handles, constructed, firstReturned, lastRead, now,
                   validation, tokenInfo, req>>

-----------------------------------------------------------------------------
(* A request passing the timeout interceptor *)

\* the timeout the transport's timeout interceptor was created with
TimeoutOf(transport) ==
    LET i == CHOOSE i \in 1..Len(transport.interceptors) :
                 transport.interceptors[i].kind = "timeout"
    IN  transport.interceptors[i].timeoutMs

\* The interceptor up to its await: a new controller, the timer set, and a
\* listener added to the caller's signal when the request has one. A listener
\* added to a signal that is already aborted is never called. The downstream
\* call receives controller.signal.
EnterTimeoutInterceptor(id, timeoutMs, hasSignal, signalAborted, t) ==
    [id |-> id, status |-> "pending", timeoutMs |-> timeoutMs, start |-> t,
     due |-> t + timeoutMs, timerArmed |-> TRUE, timerFired |-> FALSE,
     hasSignal |-> hasSignal, callerAborted |-> hasSignal /\ signalAborted,
     abortedAtStart |-> hasSignal /\ signalAborted, controllerAborted |-> FALSE,
     callerHeader |-> NoHeaders, header |-> NoHeaders, left |-> FALSE]

\* the setTimeout callback: controller.abort()
OnTimeout(r) ==
    [r EXCEPT !.controllerAborted = TRUE, !.timerArmed = FALSE, !.timerFired = TRUE]

\* the "abort" listener on the caller's signal: controller.abort()
OnSignalAbort(r) == [r EXCEPT !.callerAborted = TRUE, !.controllerAborted = TRUE]

\* clearTimeout after the await instead of in finally: skipped on rejection
SettleClearingOnResolveOnly(r, outcome) ==
    [r EXCEPT !.status = outcome,
              !.timerArmed = IF outcome = "resolved" THEN FALSE ELSE @]

\* next(...) settles, resolved or rejected; finally: clearTimeout(timeoutId)
Settle(r, outcome) == [r EXCEPT !.status = outcome, !.timerArmed = FALSE]

RequestFrame ==
    UNCHANGED <<config, client, handles, constructed, firstReturned, lastRead,
                validation, tokenInfo, probe>>

\* A request enters the interceptors. Each runs up to its call of next
\* before anything else happens, so the request reaches the network with
\* its headers set as the three leave them. When a call of set throws, the
\* request is rejected there and the timeout interceptor clears its timer.
StartRequestCarrying(h) ==
    /\ client.created
    /\ req.status # "pending"
    /\ req.id < MaxRequests
    /\ \E hasSignal \in BOOLEAN, signalAborted \in BOOLEAN :
        LET entered == [EnterTimeoutInterceptor(req.id + 1, TimeoutOf(client.transport),
                                                hasSignal, signalAborted, now)
                           EXCEPT !.callerHeader = h]
        IN  req' = IF SomeInterceptorThrows(client.transport.interceptors)
                   THEN Settle(entered, "rejected")
                   ELSE [entered EXCEPT
                            !.header = SendThrough(client.transport.interceptors, h),
                            !.left = TRUE]
    /\ UNCHANGED now
    /\ RequestFrame

\* a request that carries no header of the caller's
StartRequest == StartRequestCarrying(NoHeaders)

\* a request that carries headers of the caller's, an Authorization among them
StartRequestWithHeaders == \E h \in CallerHeaderInputs : StartRequestCarrying(h)

\* the timer is due and its callback runs
TimerFires ==
    /\ req.timerArmed
    /\ now >= req.due
    /\ req' = OnTimeout(req)
    /\ UNCHANGED now
    /\ RequestFrame

\* the caller aborts the signal it passed with the request
CallerAborts ==
    /\ req.status # "none"
    /\ req.hasSignal
    /\ ~req.callerAborted
    /\ req' = OnSignalAbort(req)
    /\ UNCHANGED now
    /\ RequestFrame

\* the downstream call resolves or rejects
DownstreamSettles ==
    /\ req.status = "pending"
    /\ \E outcome \in {"resolved", "rejected"} : req' = Settle(req, outcome)
    /\ UNCHANGED now
    /\ RequestFrame

\* A millisecond passes. A timer that is due runs before the clock moves on.
TickMs ==
    /\ now < MaxElapsed
    /\ ~(req.timerArmed /\ now >= req.due)
    /\ now' = now + 1
    /\ UNCHANGED req
    /\ RequestFrame

-----------------------------------------------------------------------------
(* Specifications *)

DefaultConfig == MakeConfig(Undefined, Undefined, Undefined, Undefined)

\* the service accessors of one client
InitAccessors ==
    /\ config \in {MakeConfig(t, Undefined, Undefined, h) :
                      t \in {Undefined, Some(Repeat("a", 10))},
                      h \in {Undefined, Some(<< <<XCustomHeader, HeaderValue>> >>)}}
    /\ now = 0
    /\ InitRest

NextAccessors == CreateClient \/ ReadAnyService

SpecAccessors == InitAccessors /\ [][NextAccessors]_vars

\* the token methods of a client, for every token of TokenInputs
InitToken ==
    /\ config \in {MakeConfig(t, Undefined, Undefined, Undefined) :
                      t \in {Undefined} \cup {Some(t) : t \in TokenInputs}}
    /\ now \in ClockValues
    /\ InitRest

NextToken ==
    \/ CreateClient \/ ValidateToken \/ GetTokenInfo \/ CallValidateAuthToken
    \/ CallParseJWTToken \/ Discard \/ Tick

SpecToken == InitToken /\ [][NextToken]_vars

\* the exported utilities on claims objects
InitClaims ==
    /\ config = DefaultConfig
    /\ now \in ClockValues
    /\ InitRest

NextClaims ==
    CallIsTokenExpired \/ CallIsTokenNotYetValid \/ CallTokenExpiresIn \/ Discard \/ Tick

SpecClaims == InitClaims /\ [][NextClaims]_vars

\* the utilities on a token with and without the Bearer prefix
InitPrefix ==
    /\ config \in {MakeConfig(Some(t), Undefined, Undefined, Undefined) :
                      t \in PrefixSubjects}
    /\ now \in ClockValues
    /\ InitRest

NextPrefix == ComparePrefixedValidation \/ ComparePrefixedTokenInfo \/ Discard

SpecPrefix == InitPrefix /\ [][NextPrefix]_vars

\* resolveConfig, createTransport and createClient on every configuration
\* of ConfigInputs
InitConfig ==
    /\ config \in ConfigInputs
    /\ now = 0
    /\ InitRest

NextConfig ==
    CallResolveConfig \/ CallCreateTransport \/ CreateClient \/ ReadCluster \/ Discard

SpecConfig == InitConfig /\ [][NextConfig]_vars

\* the transport of a client and the requests sent through it
InitRequest ==
    /\ config \in {MakeConfig(t, s, ms, h) :
                      t \in {Undefined, Some(<<>>), Some(Repeat("a", 10))},
                      s \in SchemeInputs, ms \in TimeoutInputs, h \in HeaderInputs}
    /\ now = 0
    /\ InitRest

NextRequest ==
    CreateClient \/ StartRequest \/ TimerFires \/ CallerAborts \/ DownstreamSettles \/ TickMs

SpecRequest == InitRequest /\ [][NextRequest]_vars

\* tokens for the Authorization header: none, the empty one, a plain one, one
\* that begins with a prefix of its own, one with white space at both ends,
\* and one with a line feed inside
HeaderTokenInputs ==
    {Undefined, Some(<<>>), Some(Repeat("a", 10)),
     Some(<<"B","e","a","r","e","r"," ","a",".","b",".","c">>),
     Some(<<" ","a",".","b",".","c"," ">>),
     Some(<<"a","\n","b">>)}

\* Requests and their headers: clients of every token, scheme and custom
\* headers, the token that begins with a prefix of its own among them; the
\* clock stands still, so no timer comes due.
InitHeaders ==
    /\ config \in {MakeConfig(t, s, Undefined, h) :
                      t \in HeaderTokenInputs, s \in SchemeInputs,
                      h \in HeaderInputs \cup CustomHeaderInputs}
    /\ now = 0
    /\ InitRest

NextHeaders ==
    CreateClient \/ StartRequestWithHeaders \/ CallerAborts \/ DownstreamSettles

SpecHeaders == InitHeaders /\ [][NextHeaders]_vars

\* one client whose caller goes on assigning to the config object it passed
InitMutation ==
    /\ config \in {MakeConfig(t, s, Undefined, Undefined) :
                      t \in MutationTokenInputs, s \in SchemeInputs}
    /\ now = 0
    /\ InitRest

NextMutation ==
    CreateClient \/ SetAuthToken \/ ValidateToken \/ GetTokenInfo \/ Discard \/ StartRequest

SpecMutation == InitMutation /\ [][NextMutation]_vars

\* the loggers: console loggers of every minimum level, and the logger of a
\* configuration that names none, a console logger or the consumer's own
InitLogger ==
    /\ config \in {[DefaultConfig EXCEPT !.logger = lg] :
                      lg \in LoggerInputs \cup {Some(createConsoleLogger(Some("warn")))}}
    /\ now = 0
    /\ InitRest

NextLogger == CallConsoleLogger \/ CallResolvedLogger \/ Discard

SpecLogger == InitLogger /\ [][NextLogger]_vars

-----------------------------------------------------------------------------
(* Properties of the service accessors *)

Settled == {"resolved", "rejected"}

\* Each service's handle is constructed at the first read of its accessor and
\* not before, the accessor keeps returning that handle, and every handle
\* holds the one transport of the client.
MemoizedHandles ==
    /\ \A s \in Services :
        /\ constructed[s] = IF firstReturned[s] = NoHandle THEN 0 ELSE 1
        /\ handles[s] = firstReturned[s]
        /\ handles[s] # NoHandle =>
              handles[s].api = s /\ handles[s].transport = client.transport.id
    /\ lastRead.service # "none" =>
          lastRead.handle # NoHandle /\ lastRead.handle = firstReturned[lastRead.service]
    /\ client.transportsCreated = IF client.created THEN 1 ELSE 0

\* A step changes the handle or the construction count of a service only if
\* it is the first read of that service.
OnlyTheReadServiceChanges ==
    \A s \in Services :
        (handles'[s] # handles[s] \/ constructed'[s] # constructed[s]) =>
            lastRead'.service = s /\ handles[s] = NoHandle

\* C1: createClient constructs no service handle; the handle of a service is
\* constructed exactly once, at the first read of its accessor; every later
\* read returns that same handle; a read neither constructs nor replaces the
\* handle of another service; every handle is constructed with the transport
\* exposed as client.transport.
C1_MemoizedAccessors == []MemoizedHandles /\ [][OnlyTheReadServiceChanges]_vars

\* two services have been read and constructed, a third has not
C1_Witness ==
    /\ client.created
    /\ lastRead.service = "cluster"
    /\ constructed["cluster"] = 1
    /\ constructed["runner"] = 1
    /\ handles["user"] = NoHandle

-----------------------------------------------------------------------------
(* Properties of the token methods *)

ConfiguredToken == config.authToken.defined /\ config.authToken.value # <<>>

\* what parseJWTToken makes of the configured token, its prefix stripped
ConfiguredParse == parseJWTToken(removeBearerPrefix(config.authToken.value))

HasNumber(claims, key) ==
    claims.kind = "object" /\ Property(claims, key).kind = "number"

\* the claim in milliseconds
ClaimMs(claims, key) == Property(claims, key).num * 1000

\* C2: client.validateToken() and client.getTokenInfo() return a value and
\* never throw, whatever token is configured.
C2_TokenMethodsNeverRaise ==
    /\ validation.called => ~validation.outcome.threw
    /\ tokenInfo.called => ~tokenInfo.outcome.threw

\* C3: client.getTokenInfo() returns null when no token is configured and
\* when parseJWTToken fails on the token, and for every token parseJWTToken
\* accepts it returns a record whose claims are the parsed payload.
C3_TokenInfoNullExactlyOnParseFailure ==
    tokenInfo.called =>
        /\ ~tokenInfo.outcome.threw
        /\ IF ~ConfiguredToken \/ ConfiguredParse.threw
           THEN tokenInfo.outcome.value.isNull
           ELSE /\ ~tokenInfo.outcome.value.isNull
                /\ tokenInfo.outcome.value.claims = ConfiguredParse.value

\* C7: on a token with a dot that parseJWTToken accepts, validateAuthToken
\* reports expiration first, not-before second, and otherwise valid, each
\* with the parsed claims.
C7_ExpirationThenNotBefore ==
    (probe.called /\ probe.fn = "validateAuthToken" /\ probe.token # <<>>) =>
        LET actual == removeBearerPrefix(probe.token)
            parsed == parseJWTToken(actual)
        IN  (includes(actual, ".") /\ ~parsed.threw) =>
                LET claims  == parsed.value
                    expired == HasNumber(claims, EXP) /\ probe.at1 >= ClaimMs(claims, EXP)
                    notYet  == HasNumber(claims, NBF) /\ probe.at2 < ClaimMs(claims, NBF)
                IN  /\ ~probe.outcome.threw
                    /\ probe.outcome.value =
                         IF expired
                         THEN InvalidWithClaims(
                                  Message("Token expired at ",
                                          toISOString(ClaimMs(claims, EXP))), claims)
                         ELSE IF notYet
                         THEN InvalidWithClaims(
                                  Message("Token not yet valid until ",
                                          toISOString(ClaimMs(claims, NBF))), claims)
                         ELSE ValidWithClaims(claims)

\* C9: a claims object without an exp claim is never expired and has 0 as its
\* time to expiry, at every time: getTokenInfo reports isExpired false and
\* expiresIn 0 for its token, and no validation reports the token expired.
C9_NoExpNeverExpires ==
    (ConfiguredToken /\ ~ConfiguredParse.threw /\ ConfiguredParse.value.kind = "object"
        /\ Property(ConfiguredParse.value, EXP) = JUndefined) =>
        /\ tokenInfo.called =>
              /\ ~tokenInfo.outcome.threw
              /\ ~tokenInfo.outcome.value.isNull
              /\ tokenInfo.outcome.value.isExpired = FALSE
              /\ tokenInfo.outcome.value.expiresIn = Number(0)
        /\ validation.called =>
              /\ ~validation.outcome.threw
              /\ validation.outcome.value.error.text # "Token expired at "
        /\ (probe.called /\ probe.fn = "validateAuthToken") =>
              /\ ~probe.outcome.threw
              /\ probe.outcome.value.error.text # "Token expired at "

\* a token with nbf 1 and without exp, inspected after second 2 began
C9_Witness ==
    /\ tokenInfo.called
    /\ ConfiguredToken
    /\ ~ConfiguredParse.threw
    /\ ConfiguredParse.value = MakeClaims([has |-> FALSE, val |-> 0], [has |-> TRUE, val |-> 1])
    /\ tokenInfo.at1 >= 2000
    /\ ~tokenInfo.outcome.value.isNull
    /\ tokenInfo.outcome.value.isExpired = FALSE

\* C11: validateAuthToken on the empty string returns the invalid result
\* "Auth token is empty" without claims, and the test is made on the token as
\* given: a token that is empty only once its prefix is removed does not get
\* that result.
C11_EmptyTokenRejectedFirst ==
    (probe.called /\ probe.fn = "validateAuthToken") =>
        /\ probe.token = <<>> =>
              probe.outcome = Return(Invalid(Message("Auth token is empty", <<>>)))
        /\ (probe.token # <<>> /\ ~probe.outcome.threw) =>
              probe.outcome.value.error.text # "Auth token is empty"

\* validateAuthToken has been called on the empty string
C11_Witness ==
    /\ probe.called
    /\ probe.fn = "validateAuthToken"
    /\ probe.token = <<>>
    /\ ~probe.outcome.threw
    /\ ~probe.outcome.value.valid
    /\ ~probe.outcome.value.hasClaims

\* C12: on a client created with no authToken or with the empty string,
\* client.validateToken() returns the invalid result "No auth token
\* configured" and invokes no utility, and client.getTokenInfo() returns null
\* and invokes neither getTokenInfo nor the parser.
C12_NoTokenShortCircuits ==
    ~ConfiguredToken =>
        /\ validation.called =>
              /\ validation.outcome =
                     Return(Invalid(Message("No auth token configured", <<>>)))
              /\ validation.calls = {}
        /\ tokenInfo.called =>
              /\ tokenInfo.outcome = Return(NullInfo)
              /\ tokenInfo.calls = {}

\* validateToken() has been called on a client configured with the empty string
C12_Witness ==
    /\ validation.called
    /\ config.authToken.defined
    /\ config.authToken.value = <<>>
    /\ ~validation.outcome.value.valid

\* C13 as stated: for every non-empty token t and every letter-casing of
\* Bearer, validateAuthToken("Bearer " + t) returns what validateAuthToken(t)
\* returns, and getTokenInfo likewise.
C13_PrefixNeverChangesResult ==
    (probe.called /\ probe.token # <<>>) => probe.prefixed = probe.outcome

\* a token that begins with white space or carries a Bearer prefix already
BeginsWithSpaceOrPrefix(token) ==
    IsWhitespace(Head(token)) \/ removeBearerPrefix(token) # token

\* C13 amended: for every non-empty token t that begins neither with white
\* space nor with a Bearer prefix of its own, and every letter-casing of
\* Bearer, validateAuthToken("Bearer " + t) returns what validateAuthToken(t)
\* returns, and getTokenInfo likewise.
C13_PrefixStripped ==
    (probe.called /\ probe.token # <<>> /\ ~BeginsWithSpaceOrPrefix(probe.token)) =>
        probe.prefixed = probe.outcome

\* an expired JWT behind "bEARER ": both calls report the expiration
C13_Witness ==
    /\ probe.called
    /\ probe.fn = "validateAuthToken"
    /\ probe.prefix = <<"b","E","A","R","E","R"," ">>
    /\ ~BeginsWithSpaceOrPrefix(probe.token)
    /\ ~probe.prefixed.threw
    /\ probe.prefixed.value.hasClaims
    /\ probe.prefixed.value.error.text = "Token expired at "

\* what validateAuthToken is to return for an opaque token: valid without
\* claims from 10 characters on, invalid with the length in the error below
OpaqueResult(actual) ==
    IF Len(actual) >= 10
    THEN Return(Valid)
    ELSE Return(Invalid(Message("Token appears too short (length: ",
                                IntToString(Len(actual)) \o <<")">>)))

\* C14 as stated: for every token that has no "." once its prefix is removed,
\* validateAuthToken returns valid without claims when the length is at least
\* 10 and invalid with an error reporting the length when it is below 10.
C14_OpaqueByLength ==
    (probe.called /\ probe.fn = "validateAuthToken"
        /\ ~includes(removeBearerPrefix(probe.token), ".")) =>
        probe.outcome = OpaqueResult(removeBearerPrefix(probe.token))

\* C14 amended: the same for every non-empty token; the empty string gets
\* the result of C11, whose error does not report a length.
C14_NonEmptyOpaqueByLength ==
    (probe.called /\ probe.fn = "validateAuthToken" /\ probe.token # <<>>
        /\ ~includes(removeBearerPrefix(probe.token), ".")) =>
        probe.outcome = OpaqueResult(removeBearerPrefix(probe.token))

\* an opaque token of exactly 10 characters has been found valid
C14_Witness ==
    /\ probe.called
    /\ probe.fn = "validateAuthToken"
    /\ probe.token = Repeat("a", 10)
    /\ probe.outcome = Return(Valid)

\* the number of "." characters of a string
Dots(token) == Cardinality({i \in 1..Len(token) : token[i] = "."})

\* the error of parseJWTToken that names the number of segments
WrongSegmentCount(n) ==
    Message("Invalid token format: expected 3 parts, got ", IntToString(n))

\* C15: parseJWTToken throws the error naming the segment count for every
\* token whose number of "."-separated segments is not 3, the empty string
\* included, and returns nothing; validateAuthToken returns the invalid
\* result with that error, without claims, for every token that has at least
\* one "." but not exactly two, whatever its length.
C15_ExactlyThreeSegments ==
    /\ (probe.called /\ probe.fn = "parseJWTToken" /\ Dots(probe.token) # 2) =>
            probe.outcome = Throw(WrongSegmentCount(Dots(probe.token) + 1))
    /\ (probe.called /\ probe.fn = "validateAuthToken"
            /\ Dots(probe.token) >= 1 /\ Dots(probe.token) # 2) =>
            probe.outcome = Return(Invalid(WrongSegmentCount(Dots(probe.token) + 1)))

\* a token of 21 characters with one "." has been rejected for its 2 segments
C15_Witness ==
    /\ probe.called
    /\ probe.fn = "validateAuthToken"
    /\ Len(probe.token) = 21
    /\ Dots(probe.token) = 1
    /\ probe.outcome = Return(Invalid(WrongSegmentCount(2)))

\* C16: on a token of three segments parseJWTToken either returns a JSON
\* object, the one the decoded second segment parses to, or throws "Invalid
\* token format: missing payload" (empty second segment) or "Failed to parse
\* token payload: ..."; a token built from a claims object yields those
\* claims, the first and third segments do not influence the result, and the
\* value returned is never anything but a JSON object.
C16_ObjectOrError ==
    (probe.called /\ probe.fn = "parseJWTToken" /\ Dots(probe.token) = 2) =>
        LET payload == split(probe.token, ".")[2]
            other   == <<"x",".">> \o payload \o <<".","y">>
        IN  /\ payload = <<>> =>
                  probe.outcome = Throw(Message("Invalid token format: missing payload", <<>>))
            /\ payload # <<>> =>
                  \/ /\ probe.outcome.threw
                     /\ probe.outcome.error.text = "Failed to parse token payload: "
                  \/ /\ ~probe.outcome.threw
                     /\ probe.outcome.value.kind = "object"
                     /\ JSONparse(base64UrlDecode(payload)).ok
                     /\ probe.outcome.value = JSONparse(base64UrlDecode(payload)).value
            /\ \A c \in ClaimsInputs :
                  probe.token = createTestJWT(c) => probe.outcome = Return(c)
            /\ parseJWTToken(other) = probe.outcome

-----------------------------------------------------------------------------
(* Properties of the utilities on claims objects *)

\* C8: for claims with an exp claim, isTokenExpired is true exactly when
\* now >= exp * 1000, and tokenExpiresIn is exp * 1000 - now.
C8_ExpiredFromExpInstant ==
    (probe.called /\ HasNumber(probe.claims, EXP)) =>
        /\ probe.fn = "isTokenExpired" =>
              /\ ~probe.outcome.threw
              /\ probe.outcome.value = (probe.at >= ClaimMs(probe.claims, EXP))
        /\ probe.fn = "tokenExpiresIn" =>
              /\ ~probe.outcome.threw
              /\ probe.outcome.value = Number(ClaimMs(probe.claims, EXP) - probe.at)

\* C10: isTokenNotYetValid is false for claims without an nbf claim, and for
\* claims with one it is true exactly when now < nbf * 1000.
C10_NotBeforeMirrorsExpiration ==
    (probe.called /\ probe.fn = "isTokenNotYetValid") =>
        /\ ~probe.outcome.threw
        /\ probe.outcome.value =
              (HasNumber(probe.claims, NBF) /\ probe.at < ClaimMs(probe.claims, NBF))

\* the instant now = nbf * 1000 counts as valid to start
C10_Witness ==
    /\ probe.called
    /\ probe.fn = "isTokenNotYetValid"
    /\ HasNumber(probe.claims, NBF)
    /\ Property(probe.claims, NBF).num = 1
    /\ probe.at = 1000
    /\ probe.outcome.value = FALSE

-----------------------------------------------------------------------------
(* Properties of resolveConfig *)

\* the base URL the configuration asks for
RequestedBaseUrl == IF config.baseUrl.defined THEN config.baseUrl.value ELSE DefaultBaseUrl

\* a string less its final "/", if it has one
LessFinalSlash(u) ==
    IF Len(u) >= 1 /\ u[Len(u)] = "/" THEN SubSeq(u, 1, Len(u) - 1) ELSE u

\* what resolveConfig is to return apart from the base URL: supplied values
\* over the defaults, the token and the headers as they are, the input
\* object as it was
MergedOverDefaults(r) ==
    /\ r.timeout = (IF config.timeout.defined THEN config.timeout.value ELSE 30000)
    /\ r.httpVersion = (IF config.httpVersion.defined THEN config.httpVersion.value ELSE "2")
    /\ r.authScheme = (IF config.authScheme.defined THEN config.authScheme.value ELSE "bearer")
    /\ r.logger = (IF config.logger.defined THEN config.logger.value ELSE noopLogger)
    /\ r.authToken = config.authToken
    /\ r.headers = config.headers
    /\ probe.input = config

\* C17 as stated: the resolved baseUrl, timeout, httpVersion and authScheme
\* are the supplied values where supplied and the defaults otherwise, the
\* logger defaults to noopLogger, authToken and headers pass through, and
\* the input object is not modified.
C17_SuppliedOverDefaults ==
    (probe.called /\ probe.fn = "resolveConfig" /\ ~probe.outcome.threw) =>
        /\ probe.outcome.value.baseUrl = RequestedBaseUrl
        /\ MergedOverDefaults(probe.outcome.value)

\* C17 amended: the same, except that the resolved baseUrl is the supplied
\* value (or the default) less one trailing "/".
C17_SuppliedOverDefaultsLessSlash ==
    (probe.called /\ probe.fn = "resolveConfig" /\ ~probe.outcome.threw) =>
        /\ probe.outcome.value.baseUrl = LessFinalSlash(RequestedBaseUrl)
        /\ MergedOverDefaults(probe.outcome.value)

\* a supplied timeout of 0 has been kept, next to defaults for the rest
C17_Witness ==
    /\ probe.called
    /\ probe.fn = "resolveConfig"
    /\ ~probe.outcome.threw
    /\ config.timeout = Some(0)
    /\ probe.outcome.value.timeout = 0
    /\ ~config.httpVersion.defined
    /\ probe.outcome.value.httpVersion = "2"

\* C18: for a base URL that new URL rejects, resolveConfig throws "Invalid
\* baseUrl: <value>", createTransport and createClient throw the same error,
\* and no transport, client or service handle comes to exist.
C18_InvalidBaseUrlRejected ==
    ~URLParses(RequestedBaseUrl) =>
        /\ (probe.called /\ probe.fn \in {"resolveConfig", "createTransport"}) =>
              probe.outcome = Throw(Message("Invalid baseUrl: ", RequestedBaseUrl))
        /\ client.threw => client.error = Message("Invalid baseUrl: ", RequestedBaseUrl)
        /\ ~client.created
        /\ client.transport = NoTransport
        /\ \A s \in Services : handles[s] = NoHandle /\ constructed[s] = 0

\* createClient has thrown on the base URL "not-a-url"
C18_Witness ==
    /\ client.threw
    /\ config.baseUrl = Some(<<"n","o","t","-","a","-","u","r","l">>)
    /\ ~client.created

\* C19: resolveConfig accepts every base URL that new URL accepts, and the
\* resolved baseUrl is the input less exactly one final "/" when the input
\* ends with "/", and the input itself otherwise.
C19_SingleTrailingSlashStripped ==
    (probe.called /\ probe.fn = "resolveConfig" /\ config.baseUrl.defined
        /\ URLParses(config.baseUrl.value)) =>
        LET u == config.baseUrl.value IN
        /\ ~probe.outcome.threw
        /\ probe.outcome.value.baseUrl =
              (IF u[Len(u)] = "/" THEN SubSeq(u, 1, Len(u) - 1) ELSE u)

\* of a base URL that ends with two slashes, one is left
C19_Witness ==
    /\ probe.called
    /\ probe.fn = "resolveConfig"
    /\ config.baseUrl = Some(CustomUrl \o <<"/","/">>)
    /\ probe.outcome.value.baseUrl = CustomUrl \o <<"/">>

-----------------------------------------------------------------------------
(* Properties of the transport and of the timeout interceptor *)

\* C4: the interceptor list is the timeout interceptor, then the headers
\* interceptor exactly when headers has a key, then the authorization
\* interceptor exactly when authToken is a non-empty string.
C4_InterceptorOrder ==
    client.created =>
        LET list       == client.transport.interceptors
            kinds      == [i \in 1..Len(list) |-> list[i].kind]
            hasHeaders == config.headers.defined /\ config.headers.value # <<>>
            hasToken   == config.authToken.defined /\ config.authToken.value # <<>>
        IN  /\ Len(list) \in 1..3
            /\ kinds[1] = "timeout"
            /\ (\E i \in 1..Len(list) : kinds[i] = "headers") <=> hasHeaders
            /\ (\E i \in 1..Len(list) : kinds[i] = "auth") <=> hasToken
            /\ \A i, j \in 1..Len(list) :
                  /\ (kinds[i] = kinds[j] => i = j)
                  /\ (kinds[i] = "headers" /\ kinds[j] = "auth" => i < j)

\* an empty headers object and a token: the timeout and the auth interceptor
C4_Witness ==
    /\ client.created
    /\ config.headers.defined
    /\ config.headers.value = <<>>
    /\ Len(client.transport.interceptors) = 2
    /\ client.transport.interceptors[2].kind = "auth"

ConfiguredTimeout == OrDefault(config.timeout, DefaultTimeout)

\* a call still pending more than the configured timeout after its start has
\* an aborted signal
AbortedWhenOverdue ==
    (req.status = "pending" /\ now > req.start + ConfiguredTimeout) =>
        req.controllerAborted

\* a settled call has no timer
NoTimerOnceSettled == req.status \in Settled => ~req.timerArmed

\* the timer callback does not run for a settled call
NoTimeoutAfterSettled ==
    (req.status \in Settled /\ req'.id = req.id) => req'.timerFired = req.timerFired

\* C5: a downstream call that has not completed when the configured timeout
\* has passed gets its signal aborted; when it completes first, resolving or
\* rejecting, the timer is cancelled and never aborts the signal afterwards.
C5_TimeoutAbortsOrIsCancelled ==
    /\ []AbortedWhenOverdue
    /\ []NoTimerOnceSettled
    /\ [][NoTimeoutAfterSettled]_vars

\* a call rejected before its timeout, seen after the timeout has passed
C5_Witness ==
    /\ req.status = "rejected"
    /\ ~req.timerFired
    /\ ~req.controllerAborted
    /\ now > req.due

\* C6: whenever the caller's signal is aborted, before the interceptor ran or
\* while the downstream call is in flight, the signal of the downstream call
\* is aborted.
C6_CallerAbortReachesDownstream ==
    (req.status = "pending" /\ req.hasSignal /\ req.callerAborted) =>
        req.controllerAborted

\* the values a request carries under the name Authorization
AuthorizationValues(h) ==
    LET name == <<"a","u","t","h","o","r","i","z","a","t","i","o","n">>
    IN  IF name \in DOMAIN h THEN h[name] ELSE <<>>

\* the word before the token: Token under the scheme "token", else Bearer
SchemeWord ==
    IF config.authScheme.defined /\ config.authScheme.value = "token"
    THEN <<"T","o","k","e","n">> ELSE <<"B","e","a","r","e","r">>

TokenConfigured == config.authToken.defined /\ config.authToken.value # <<>>

\* with no token configured there is no authorization interceptor, and a
\* request that neither the caller nor the custom headers gave an
\* Authorization header leaves without one
NoTokenNoAuthorization ==
    LET custom == IF config.headers.defined
                  THEN {Lower(k) : k \in Keys(config.headers.value)} ELSE {}
    IN  /\ \A i \in 1..Len(client.transport.interceptors) :
             client.transport.interceptors[i].kind # "auth"
        /\ (AuthorizationValues(req.callerHeader) = <<>>
              /\ Lower(AuthorizationName) \notin custom)
              => AuthorizationValues(req.header) = <<>>

\* C20 as stated: with a token configured, every request that leaves the
\* authorization interceptor carries exactly one Authorization value,
\* "Token <authToken>" under the scheme "token" and "Bearer <authToken>"
\* otherwise, the token as configured, character for character; with no
\* token configured the interceptor is absent and no Authorization header is
\* added.
C20_AuthorizationFromTokenAndScheme ==
    req.left =>
        IF TokenConfigured
        THEN AuthorizationValues(req.header) =
                 << SchemeWord \o <<" ">> \o config.authToken.value >>
        ELSE NoTokenNoAuthorization

\* C20, amended: with a token configured, every request that leaves the
\* authorization interceptor carries exactly one Authorization value,
\* "Token <authToken>" under the scheme "token" and "Bearer <authToken>"
\* otherwise, less the white space at its end; with no token configured the
\* interceptor is absent and no Authorization header is added.
C20_AuthorizationLessTrailingWhitespace ==
    req.left =>
        IF TokenConfigured
        THEN /\ Len(AuthorizationValues(req.header)) = 1
             /\ LET value == AuthorizationValues(req.header)[1]
                     whole == SchemeWord \o <<" ">> \o config.authToken.value
                 IN  /\ Len(value) <= Len(whole)
                     /\ value = SubSeq(whole, 1, Len(value))
                     /\ value = <<>> \/ value[Len(value)] \notin HttpWhitespace
                     /\ \A k \in Len(value) + 1 .. Len(whole) : whole[k] \in HttpWhitespace
        ELSE NoTokenNoAuthorization

\* under the scheme "token", a request that came with two Authorization
\* values of the caller and met a custom Authorization header leaves with
\* the one value made from the token " a.b.c ", its last space gone
C20_Witness ==
    /\ req.left
    /\ config.authScheme = Some("token")
    /\ config.headers.defined
    /\ AuthorizationName \in Keys(config.headers.value)
    /\ Len(AuthorizationValues(req.callerHeader)) = 2
    /\ AuthorizationValues(req.header) =
           << <<"T","o","k","e","n"," "," ","a",".","b",".","c">> >>

\* debug < info < warn < error
LevelsInOrder == <<"debug", "info", "warn", "error">>

AtOrAbove(level, minLevel) ==
    \E i, j \in 1..Len(LevelsInOrder) :
        LevelsInOrder[i] = level /\ LevelsInOrder[j] = minLevel /\ i >= j

\* C21: a logger made by createConsoleLogger(minLevel) writes a message
\* logged at level L to the console, once, with the console method of that
\* level and with its arguments, if and only if L is at or above minLevel
\* in the order debug < info < warn < error, minLevel being debug when none
\* is given; noopLogger, the logger of a resolved configuration that names
\* none, writes nothing at any level; and no call throws.
C21_ConsoleLoggerByLevel ==
    /\ (probe.called /\ probe.fn = "createConsoleLogger") =>
          LET minLevel == IF probe.minLevel.defined THEN probe.minLevel.value ELSE "debug"
          IN  /\ ~probe.outcome.threw
              /\ probe.outcome.value =
                    IF AtOrAbove(probe.level, minLevel)
                    THEN <<[method |-> probe.level, message |-> probe.message,
                            args |-> probe.args]>>
                    ELSE <<>>
    /\ (probe.called /\ probe.fn = "resolved.logger" /\ ~config.logger.defined) =>
          /\ probe.logger = noopLogger
          /\ ~probe.outcome.threw
          /\ probe.outcome.value = <<>>

\* a logger of minimum level warn has been asked to log at warn and wrote
\* the message with console.warn
C21_Witness ==
    /\ probe.called
    /\ probe.fn = "createConsoleLogger"
    /\ probe.minLevel = Some("warn")
    /\ probe.level = "warn"
    /\ Len(probe.outcome.value) = 1
    /\ probe.outcome.value[1].method = "warn"

\* valid is true exactly when there is no error, and an invalid result
\* carries an error message that is not the empty string
WellFormed(r) ==
    /\ r.valid <=> ~r.hasError
    /\ ~r.valid => (r.hasError /\ (r.error.text # "" \/ r.error.arg # <<>>))

\* the token is not empty, has a dot once its prefix is removed, and
\* parseJWTToken returns for it
ParsesAsJWT(token) ==
    /\ token # <<>>
    /\ includes(removeBearerPrefix(token), ".")
    /\ ~parseJWTToken(removeBearerPrefix(token)).threw

\* C22: every result returned by validateAuthToken and by
\* client.validateToken() is well-formed: valid is true if and only if error
\* is absent, an invalid result carries a non-empty error string, and claims
\* is present exactly on the results that followed a successful JWT parse,
\* and absent on empty, opaque and parse-failure results and when no token
\* is configured.
C22_ResultsWellFormed ==
    /\ (probe.called /\ probe.fn = "validateAuthToken" /\ ~probe.outcome.threw) =>
          /\ WellFormed(probe.outcome.value)
          /\ probe.outcome.value.hasClaims <=> ParsesAsJWT(probe.token)
    /\ (validation.called /\ ~validation.outcome.threw) =>
          /\ WellFormed(validation.outcome.value)
          /\ validation.outcome.value.hasClaims <=>
                (config.authToken.defined /\ ParsesAsJWT(config.authToken.value))

\* client.validateToken() has returned a valid result with the claims of
\* its token
C22_Witness ==
    /\ validation.called
    /\ ~validation.outcome.threw
    /\ validation.outcome.value.valid
    /\ validation.outcome.value.hasClaims
    /\ ~validation.outcome.value.hasError

\* the claims of the record are an object with an exp member
HasExpClaim(claims) ==
    claims.kind = "object" /\ \E i \in 1..Len(claims.members) : claims.members[i][1] = EXP

\* C23: the record client.getTokenInfo() returns is consistent although the
\* clock is read twice: for a token with an exp claim, isExpired is true if
\* and only if expiresIn <= 0, however the clock advances between the reads.
C23_TokenInfoConsistent ==
    (/\ tokenInfo.called
     /\ ~tokenInfo.outcome.value.isNull
     /\ HasExpClaim(tokenInfo.outcome.value.claims)) =>
        (tokenInfo.outcome.value.isExpired <=>
            (/\ ~tokenInfo.outcome.value.expiresIn.nan
             /\ tokenInfo.outcome.value.expiresIn.n <= 0))

\* C23, with the clock standing still between the two reads and an exp
\* claim other than 0: the record is consistent
C23_ConsistentOnOneInstant ==
    (/\ tokenInfo.called
     /\ ~tokenInfo.outcome.value.isNull
     /\ HasExpClaim(tokenInfo.outcome.value.claims)
     /\ ~Falsy(Property(tokenInfo.outcome.value.claims, EXP))
     /\ tokenInfo.at1 = tokenInfo.at2) =>
        (tokenInfo.outcome.value.isExpired <=>
            (/\ ~tokenInfo.outcome.value.expiresIn.nan
             /\ tokenInfo.outcome.value.expiresIn.n <= 0))

\* the clock passed the expiration instant between the two reads: the record
\* says not expired and expires in 0 ms or less
C23_ExpiredBetweenReads ==
    /\ tokenInfo.called
    /\ ~tokenInfo.outcome.value.isNull
    /\ ~Falsy(Property(tokenInfo.outcome.value.claims, EXP))
    /\ tokenInfo.at1 < tokenInfo.at2
    /\ ~tokenInfo.outcome.value.isExpired
    /\ ~tokenInfo.outcome.value.expiresIn.nan
    /\ tokenInfo.outcome.value.expiresIn.n <= 0

\* validateAuthToken has returned valid for a token whose claims carry the
\* numbers exp and nbf
ValidWithExpAndNbf ==
    /\ probe.called
    /\ probe.fn = "validateAuthToken"
    /\ ~probe.outcome.threw
    /\ probe.outcome.value.valid
    /\ probe.outcome.value.hasClaims
    /\ probe.outcome.value.claims.kind = "object"
    /\ Property(probe.outcome.value.claims, EXP).kind = "number"
    /\ Property(probe.outcome.value.claims, NBF).kind = "number"

\* some instant of from..to lies in the validity window of the claims
InWindowAtSomeInstant(claims, from, to) ==
    \E t \in from..to :
        /\ Property(claims, NBF).num * 1000 <= t
        /\ t < Property(claims, EXP).num * 1000

\* C24: validateAuthToken returns valid for a JWT carrying both exp and nbf
\* only if at a single instant between the start and the end of the call
\* nbf*1000 <= now < exp*1000; so never for a token whose window is empty
\* (nbf >= exp), however the clock advances between the two checks.
C24_ValidOnlyInsideWindow ==
    ValidWithExpAndNbf =>
        InWindowAtSomeInstant(probe.outcome.value.claims, probe.at1, probe.at2)

\* C24 for the tokens whose exp is not 0 and whose window is not empty
C24_ValidInsideNonEmptyWindow ==
    (/\ ValidWithExpAndNbf
     /\ Property(probe.outcome.value.claims, EXP).num # 0
     /\ Property(probe.outcome.value.claims, NBF).num
            < Property(probe.outcome.value.claims, EXP).num) =>
        InWindowAtSomeInstant(probe.outcome.value.claims, probe.at1, probe.at2)

\* a token whose window is empty, exp not 0, has been found valid: the clock
\* went from before exp*1000 to nbf*1000 or later between the two checks
C24_ValidWithEmptyWindow ==
    /\ ValidWithExpAndNbf
    /\ Property(probe.outcome.value.claims, EXP).num # 0
    /\ Property(probe.outcome.value.claims, NBF).num
           >= Property(probe.outcome.value.claims, EXP).num
    /\ probe.at1 < probe.at2

\* the token an optional authToken stands for: none when it is undefined or
\* the empty string
TokenOf(authToken) ==
    IF authToken.defined /\ authToken.value # <<>> THEN Some(authToken.value) ELSE Undefined

\* the token the authorization interceptor of the client's transport sends,
\* none when the transport has no such interceptor
SentToken ==
    IF \E i \in 1..Len(client.transport.interceptors) :
          client.transport.interceptors[i].kind = "auth"
    THEN LET i == CHOOSE i \in 1..Len(client.transport.interceptors) :
                     client.transport.interceptors[i].kind = "auth"
         IN  Some(client.transport.interceptors[i].authToken)
    ELSE Undefined

\* C25: on one client, the token validateToken() and getTokenInfo() inspect
\* is always the token the authorization interceptor of its transport
\* sends, the one configured when the client was created, whatever the
\* caller assigns to the config object's authToken afterwards.
C25_InspectedTokenIsSentToken ==
    /\ validation.called => TokenOf(validation.inspected) = SentToken
    /\ tokenInfo.called => TokenOf(tokenInfo.inspected) = SentToken

\* a request has left with the token of createClient while validateToken()
\* has inspected a token assigned since
C25_InspectedAnotherToken ==
    /\ validation.called
    /\ req.left
    /\ SentToken = Some(Repeat("a", 10))
    /\ validation.inspected = Some(ExpiringJWT)
    /\ validation.outcome.value.valid

\* the entries of the configured headers object
CustomEntries == IF config.headers.defined THEN config.headers.value ELSE <<>>

IsAuthorization(key) == Lower(key) = Lower(AuthorizationName)

\* the values the request carries under a name, whatever its letter case
ValuesUnder(h, key) == IF Lower(key) \in DOMAIN h THEN h[Lower(key)] ELSE <<>>

\* stored is value without the white space at its two ends
IsTrimOf(stored, value) ==
    /\ stored = <<>> \/ (stored[1] \notin HttpWhitespace
                           /\ stored[Len(stored)] \notin HttpWhitespace)
    /\ \E a \in 0..Len(value) :
          /\ a + Len(stored) <= Len(value)
          /\ SubSeq(value, a + 1, a + Len(stored)) = stored
          /\ \A k \in 1..a : value[k] \in HttpWhitespace
          /\ \A k \in (a + Len(stored) + 1)..Len(value) : value[k] \in HttpWhitespace

\* C26 as stated: the value made from the token wins over a custom
\* Authorization entry: with such an entry and a token configured, the
\* request that reaches the network carries the value built from the token
\* and the scheme, not the custom one; every other custom header reaches the
\* network with its configured value; and with no token configured a custom
\* Authorization header is kept.
C26_TokenWinsOverCustomHeader ==
    req.left =>
        \A i \in 1..Len(CustomEntries) :
            LET key   == CustomEntries[i][1]
                value == CustomEntries[i][2]
            IN  IF IsAuthorization(key) /\ TokenConfigured
                THEN AuthorizationValues(req.header) =
                         << SchemeWord \o <<" ">> \o config.authToken.value >>
                ELSE ValuesUnder(req.header, key) = <<value>>

\* C26, amended: as stated, but a value reaches the network without the
\* white space at its ends, and of two custom headers whose names differ in
\* letter case only the later entry is the one that reaches it.
C26_TokenWinsLessWhitespace ==
    req.left =>
        \A i \in 1..Len(CustomEntries) :
            LET key   == CustomEntries[i][1]
                value == CustomEntries[i][2]
                last  == \A j \in (i + 1)..Len(CustomEntries) :
                            Lower(CustomEntries[j][1]) # Lower(key)
            IN  IF IsAuthorization(key) /\ TokenConfigured
                THEN /\ Len(AuthorizationValues(req.header)) = 1
                     /\ IsTrimOf(AuthorizationValues(req.header)[1],
                                 SchemeWord \o <<" ">> \o config.authToken.value)
                ELSE last =>
                        /\ Len(ValuesUnder(req.header, key)) = 1
                        /\ IsTrimOf(ValuesUnder(req.header, key)[1], value)

\* a request whose caller gave it an Authorization header has left a client
\* with a token and the custom headers X-Custom-Header and Authorization:
\* it carries the value made from the token and the custom X-Custom-Header
C26_Witness ==
    /\ req.left
    /\ config.authToken = Some(Repeat("a", 10))
    /\ CustomEntries = << <<XCustomHeader, HeaderValue>>, <<AuthorizationName, HeaderValue>> >>
    /\ AuthorizationValues(req.callerHeader) # <<>>
    /\ AuthorizationValues(req.header) # <<HeaderValue>>
    /\ Len(AuthorizationValues(req.header)) = 1
    /\ ValuesUnder(req.header, XCustomHeader) = <<HeaderValue>>

====
